---- MODULE Spec2Model ----
(***************************************************************************)
(* Model of the workflow estimation backend: backend/graph_analyzer.py     *)
(* (GraphAnalyzer) and backend/estimator.py (estimate_workflow).           *)
(*                                                                         *)
(* Node ids are the integers 1..n in the order of the request's node list; *)
(* DanglingId is an id that no node of the request carries.  Python lists  *)
(* are sequences, Python dicts are functions (with their key order kept    *)
(* where the code iterates over it), a raised KeyError is the value        *)
(* "KeyError".                                                             *)
(***************************************************************************)
EXTENDS Integers, Sequences, FiniteSets, TLC

\* ------------------------------------------------------------------ bounds
MaxNodes == 3
MaxEdges == 3
MaxCalls == 3
MaxTools == 2
MaxBreakdown == 5
MaxCallers == 2

DanglingId == MaxNodes + 1
KnownIds == 1..MaxNodes
AllIds == 1..DanglingId

\* ----------------------------------------------------------- list helpers
Range(s) == {s[i] : i \in 1..Len(s)}

SeqsUpTo(S, n) == UNION {[1..k -> S] : k \in 0..n}

Contains(s, x) == \E i \in 1..Len(s) : s[i] = x

IndexOf(s, x) == CHOOSE i \in 1..Len(s) : s[i] = x /\ \A j \in 1..(i - 1) : s[j] # x

RECURSIVE SumSeq(_)
SumSeq(s) == IF s = <<>> THEN 0 ELSE Head(s) + SumSeq(Tail(s))

Min2(a, b) == IF a <= b THEN a ELSE b
Max2(a, b) == IF a >= b THEN a ELSE b

RECURSIVE MinSeq(_)
MinSeq(s) == IF Len(s) = 1 THEN s[1] ELSE Min2(s[1], MinSeq(Tail(s)))

Reverse(s) == [i \in 1..Len(s) |-> s[Len(s) + 1 - i]]

\* =================================================== GraphAnalyzer.__init__
\* self.adj: defaultdict(list); adj[k] is the list of targets of the edges
\* whose source is k, in edge order.  The function is total (a missing key
\* reads as the empty list); AdjKeys is the set of keys the dict holds.
AdjOf(edges) ==
    [k \in AllIds |->
        LET out == SelectSeq(edges, LAMBDA e : e[1] = k)
        IN  [i \in 1..Len(out) |-> out[i][2]]]

AdjKeys(edges) == {edges[i][1] : i \in 1..Len(edges)}

\* self.in_degree: keys in insertion order (node ids, then every edge target
\* not seen before, by setdefault), and the number of edges into each key.
RECURSIVE InDegreeKeys(_, _)
InDegreeKeys(keys, edges) ==
    IF edges = <<>> THEN keys
    ELSE LET t == Head(edges)[2]
         IN  InDegreeKeys(IF Contains(keys, t) THEN keys ELSE Append(keys, t),
                          Tail(edges))

InDegreeOf(node_ids, edges) ==
    [keys |-> InDegreeKeys(node_ids, edges),
     deg  |-> [k \in AllIds |->
                 Cardinality({i \in 1..Len(edges) : edges[i][2] = k})]]

\* ================================================= GraphAnalyzer.is_cyclic
WHITE == 0
GRAY == 1
BLACK == 2

\* _dfs(node).  st = [color, keys, res]: the colour table, the keys that
\* self.adj[node] has inserted into the defaultdict, and the outcome so far
\* ("False": keep going, "True": back-edge found, "KeyError": color[neighbour]
\* raised because the neighbour is not a node id).
RECURSIVE IsCyclicDfs(_, _, _), IsCyclicNeighbours(_, _, _, _)
IsCyclicDfs(adj, node, st) ==
    IsCyclicNeighbours(adj, node, 1,
        [st EXCEPT !.color[node] = GRAY, !.keys = @ \cup {node}])

IsCyclicNeighbours(adj, node, i, st) ==
    IF i > Len(adj[node])
    THEN [st EXCEPT !.color[node] = BLACK, !.res = "False"]
    ELSE LET neighbour == adj[node][i] IN
         IF neighbour \notin DOMAIN st.color
         THEN [st EXCEPT !.res = "KeyError"]
         ELSE IF st.color[neighbour] = GRAY
         THEN [st EXCEPT !.res = "True"]
         ELSE IF st.color[neighbour] = WHITE
         THEN LET r == IsCyclicDfs(adj, neighbour, st)
              IN  IF r.res = "False"
                  THEN IsCyclicNeighbours(adj, node, i + 1, r)
                  ELSE r
         ELSE IsCyclicNeighbours(adj, node, i + 1, st)

\* any(_dfs(nid) for nid in self.node_ids if color[nid] == WHITE)
RECURSIVE IsCyclicFrom(_, _, _, _)
IsCyclicFrom(adj, node_ids, i, st) ==
    IF i > Len(node_ids) THEN st
    ELSE IF st.color[node_ids[i]] # WHITE
    THEN IsCyclicFrom(adj, node_ids, i + 1, st)
    ELSE LET r == IsCyclicDfs(adj, node_ids[i], st)
         IN  IF r.res = "False"
             THEN IsCyclicFrom(adj, node_ids, i + 1, r)
             ELSE r

\* A faulty variant of the method below: the search starts at the first node
\* id only, so a cycle that cannot be reached from it is missed.
is_cyclic_from_first(node_ids, adj, keys) ==
    LET r == IsCyclicFrom(adj, IF node_ids = <<>> THEN <<>> ELSE <<node_ids[1]>>, 1,
                 [color |-> [n \in Range(node_ids) |-> WHITE],
                  keys  |-> keys,
                  res   |-> "False"])
    IN  [res |-> r.res, keys |-> r.keys]

\* [res |-> "True" | "False" | "KeyError", keys |-> the dict's keys afterwards]
is_cyclic(node_ids, adj, keys) ==
    LET r == IsCyclicFrom(adj, node_ids, 1,
                 [color |-> [n \in Range(node_ids) |-> WHITE],
                  keys  |-> keys,
                  res   |-> "False"])
    IN  [res |-> r.res, keys |-> r.keys]

\* ========================================= GraphAnalyzer.topological_order
\* A faulty variant of the loop below: the neighbour's in-degree is tested
\* before it is decremented, so a node with one incoming edge is never queued.
RECURSIVE KahnNeighboursTestFirst(_, _, _, _)
KahnNeighboursTestFirst(nbrs, i, in_deg, queue) ==
    IF i > Len(nbrs) THEN [in_deg |-> in_deg, queue |-> queue]
    ELSE LET nb == nbrs[i]
         IN  KahnNeighboursTestFirst(nbrs, i + 1,
                 [in_deg EXCEPT ![nb] = in_deg[nb] - 1],
                 IF in_deg[nb] = 0 THEN Append(queue, nb) ELSE queue)

\* the for loop over self.adj[node] of one dequeued node
RECURSIVE KahnNeighbours(_, _, _, _)
KahnNeighbours(nbrs, i, in_deg, queue) ==
    IF i > Len(nbrs) THEN [in_deg |-> in_deg, queue |-> queue]
    ELSE LET nb == nbrs[i]
             d  == in_deg[nb] - 1
         IN  KahnNeighbours(nbrs, i + 1, [in_deg EXCEPT ![nb] = d],
                            IF d = 0 THEN Append(queue, nb) ELSE queue)

\* the while loop
RECURSIVE KahnLoop(_, _, _, _, _)
KahnLoop(adj, in_deg, queue, order, keys) ==
    IF queue = <<>> THEN [order |-> order, keys |-> keys, in_deg |-> in_deg]
    ELSE LET node == Head(queue)
             r    == KahnNeighbours(adj[node], 1, in_deg, Tail(queue))
         IN  KahnLoop(adj, r.in_deg, r.queue, Append(order, node),
                      keys \cup {node})

\* A faulty variant of the method below: the loop counts down in
\* self.in_degree itself instead of in a copy of it.
topological_order_in_place(node_ids, adj, keys, in_degree) ==
    LET queue == SelectSeq(in_degree.keys, LAMBDA k : in_degree.deg[k] = 0)
        r     == KahnLoop(adj, in_degree.deg, queue, <<>>, keys)
    IN  [order |-> IF Len(r.order) = Len(node_ids) THEN r.order ELSE <<>>,
         keys  |-> r.keys,
         in_degree |-> [in_degree EXCEPT !.deg = r.in_deg]]

\* [order |-> the returned list, keys |-> the dict's keys afterwards,
\*  in_degree |-> self.in_degree afterwards]; the loop counts down in
\* in_deg = dict(self.in_degree), a copy
topological_order(node_ids, adj, keys, in_degree) ==
    LET queue == SelectSeq(in_degree.keys, LAMBDA k : in_degree.deg[k] = 0)
        r     == KahnLoop(adj, in_degree.deg, queue, <<>>, keys)
    IN  [order |-> IF Len(r.order) = Len(node_ids) THEN r.order ELSE <<>>,
         keys  |-> r.keys,
         in_degree |-> in_degree]

\* ============================================= GraphAnalyzer._compute_sccs
\* the pop loop at the root of a component
RECURSIVE PopComponent(_, _, _, _)
PopComponent(v, stack, on_stack, component) ==
    LET w == stack[Len(stack)]
        s == SubSeq(stack, 1, Len(stack) - 1)
        c == Append(component, w)
    IN  IF w = v
        THEN [stack |-> s, on_stack |-> on_stack \ {w}, component |-> c]
        ELSE PopComponent(v, s, on_stack \ {w}, c)

\* st = [counter, stack, on_stack, lowlink, index, result]; index and lowlink
\* are defined on the ids visited so far.
RECURSIVE strongconnect(_, _, _), StrongconnectNeighbours(_, _, _, _)
strongconnect(adj, v, st) ==
    LET st1 == [st EXCEPT !.index    = (v :> st.counter) @@ @,
                          !.lowlink  = (v :> st.counter) @@ @,
                          !.counter  = @ + 1,
                          !.stack    = Append(@, v),
                          !.on_stack = @ \cup {v}]
        st2 == StrongconnectNeighbours(adj, v, 1, st1)
    IN  IF st2.lowlink[v] = st2.index[v]
        THEN LET p == PopComponent(v, st2.stack, st2.on_stack, <<>>)
             IN  [st2 EXCEPT !.stack    = p.stack,
                             !.on_stack = p.on_stack,
                             !.result   = Append(@, p.component)]
        ELSE st2

StrongconnectNeighbours(adj, v, i, st) ==
    IF i > Len(adj[v]) THEN st
    ELSE LET w == adj[v][i] IN
         IF w \notin DOMAIN st.index
         THEN LET r == strongconnect(adj, w, st)
              IN  StrongconnectNeighbours(adj, v, i + 1,
                      [r EXCEPT !.lowlink[v] = Min2(@, r.lowlink[w])])
         ELSE IF w \in st.on_stack
         THEN StrongconnectNeighbours(adj, v, i + 1,
                  [st EXCEPT !.lowlink[v] = Min2(@, st.index[w])])
         ELSE StrongconnectNeighbours(adj, v, i + 1, st)

RECURSIVE SccsFrom(_, _, _, _)
SccsFrom(adj, node_ids, i, st) ==
    IF i > Len(node_ids) THEN st
    ELSE IF node_ids[i] \in DOMAIN st.index
    THEN SccsFrom(adj, node_ids, i + 1, st)
    ELSE SccsFrom(adj, node_ids, i + 1, strongconnect(adj, node_ids[i], st))

\* the list of components, each a list of ids
compute_sccs(node_ids, adj) ==
    SccsFrom(adj, node_ids, 1,
        [counter  |-> 0,
         stack    |-> <<>>,
         on_stack |-> {},
         lowlink  |-> <<>>,
         index    |-> <<>>,
         result   |-> <<>>]).result

\* ============================= GraphAnalyzer._find_back_edges_in_subgraph
\* st = [color, back_edges]
RECURSIVE BackEdgesDfs(_, _, _, _), BackEdgesNeighbours(_, _, _, _, _)
BackEdgesDfs(adj, scc_set, node, st) ==
    BackEdgesNeighbours(adj, scc_set, node, 1, [st EXCEPT !.color[node] = GRAY])

BackEdgesNeighbours(adj, scc_set, node, i, st) ==
    IF i > Len(adj[node]) THEN [st EXCEPT !.color[node] = BLACK]
    ELSE LET neighbour == adj[node][i] IN
         IF neighbour \notin scc_set
         THEN BackEdgesNeighbours(adj, scc_set, node, i + 1, st)
         ELSE IF st.color[neighbour] = GRAY
         THEN BackEdgesNeighbours(adj, scc_set, node, i + 1,
                  [st EXCEPT !.back_edges = Append(@, <<node, neighbour>>)])
         ELSE IF st.color[neighbour] = WHITE
         THEN BackEdgesNeighbours(adj, scc_set, node, i + 1,
                  BackEdgesDfs(adj, scc_set, neighbour, st))
         ELSE BackEdgesNeighbours(adj, scc_set, node, i + 1, st)

RECURSIVE BackEdgesFrom(_, _, _, _, _)
BackEdgesFrom(adj, scc, scc_set, i, st) ==
    IF i > Len(scc) THEN st
    ELSE IF st.color[scc[i]] # WHITE
    THEN BackEdgesFrom(adj, scc, scc_set, i + 1, st)
    ELSE BackEdgesFrom(adj, scc, scc_set, i + 1,
             BackEdgesDfs(adj, scc_set, scc[i], st))

\* A faulty variant of find_back_edges_in_subgraph: the edges of the component
\* that enter its first node.
find_back_edges_into_first(adj, scc) ==
    SelectSeq([k \in 1..Len(scc) |-> <<scc[k], scc[1]>>],
              LAMBDA e : Contains(adj[e[1]], e[2]))

find_back_edges_in_subgraph(adj, scc) ==
    BackEdgesFrom(adj, scc, Range(scc), 1,
        [color |-> [n \in Range(scc) |-> WHITE], back_edges |-> <<>>]).back_edges

\* ========================================== GraphAnalyzer.get_cycle_groups
\* from the list of components: those with at least two nodes, each with its
\* back-edges
cycle_groups_of(adj, sccs) ==
    LET big == SelectSeq(sccs, LAMBDA scc : Len(scc) >= 2)
    IN  [i \in 1..Len(big) |->
            [node_ids   |-> big[i],
             back_edges |-> find_back_edges_in_subgraph(adj, big[i])]]

\* A faulty variant of the method below: of every cycle group only the first
\* node is taken.
nodes_in_cycles_first_only(groups) ==
    {groups[i].node_ids[1] : i \in 1..Len(groups)}

\* GraphAnalyzer.get_nodes_in_cycles: a set
nodes_in_cycles_of(groups) ==
    UNION {Range(groups[i].node_ids) : i \in 1..Len(groups)}

\* GraphAnalyzer.get_nodes_outside_cycles: a list in node-id order
nodes_outside_cycles_of(node_ids, groups) ==
    SelectSeq(node_ids, LAMBDA nid : nid \notin nodes_in_cycles_of(groups))

\* ===================================== GraphAnalyzer.weighted_critical_path
\* One edge u -> v of the dynamic program.  st = [dist, parent, err]; NoParent
\* stands for None (node ids start at 1).  dist[u] and dist[v] are dict reads:
\* an id that is not a node id raises KeyError (err).
NoParent == 0

RelaxEdge(u, v, latency_map, st) ==
    IF u \notin DOMAIN st.dist \/ v \notin DOMAIN st.dist
    THEN [st EXCEPT !.err = TRUE]
    ELSE LET new_dist == st.dist[u] + latency_map[u] IN
         IF new_dist >= st.dist[v] /\ st.parent[v] = NoParent /\ u # v
         THEN [st EXCEPT !.dist[v] = new_dist, !.parent[v] = u]
         ELSE IF new_dist > st.dist[v]
         THEN [st EXCEPT !.dist[v] = new_dist, !.parent[v] = u]
         ELSE st

RECURSIVE RelaxNeighbours(_, _, _, _, _)
RelaxNeighbours(adj, u, i, latency_map, st) ==
    IF st.err \/ i > Len(adj[u]) THEN st
    ELSE RelaxNeighbours(adj, u, i + 1, latency_map,
             RelaxEdge(u, adj[u][i], latency_map, st))

RECURSIVE RelaxOrder(_, _, _, _, _)
RelaxOrder(adj, order, i, latency_map, st) ==
    IF st.err \/ i > Len(order) THEN st
    ELSE RelaxOrder(adj, order, i + 1, latency_map,
             RelaxNeighbours(adj, order[i], 1, latency_map, st))

\* max(candidates, key=...): the first candidate whose key is the largest
FirstMax(candidates, key(_)) ==
    candidates[CHOOSE i \in 1..Len(candidates) :
        /\ \A j \in 1..Len(candidates) : key(candidates[j]) <= key(candidates[i])
        /\ \A j \in 1..(i - 1) : key(candidates[j]) < key(candidates[i])]

\* the backtracking loop; path is built end-first
RECURSIVE Backtrack(_, _, _)
Backtrack(parent, current, path) ==
    IF parent[current] = NoParent THEN path
    ELSE Backtrack(parent, parent[current], Append(path, parent[current]))

\* latency_map: node id -> latency; ids that are not node ids read as 0
\* (latency_map.get(u, 0.0)).  [err |-> KeyError raised, path, keys]
weighted_critical_path(node_ids, adj, keys, in_degree, latency_map) ==
    LET lat == [k \in AllIds |->
                   IF k \in DOMAIN latency_map THEN latency_map[k] ELSE 0]
        \* after the dynamic program and the choice of the candidates
        Relaxed(t, st, candidates) ==
            IF st.err \/ \E i \in 1..Len(candidates) :
                             candidates[i] \notin DOMAIN st.dist
            THEN [err |-> TRUE, path |-> <<>>, keys |-> t.keys,
                  in_degree |-> t.in_degree, parent |-> <<>>, end_node |-> NoParent]
            ELSE LET end_node == FirstMax(candidates,
                                     LAMBDA n : st.dist[n] + lat[n])
                 IN  [err  |-> FALSE,
                      path |-> Reverse(Backtrack(st.parent, end_node, <<end_node>>)),
                      keys |-> t.keys,
                      in_degree |-> t.in_degree,
                      parent |-> st.parent, end_node |-> end_node]
        \* after order = self.topological_order()
        Ordered(t) ==
            IF t.order = <<>>
            THEN [err |-> FALSE, path |-> node_ids, keys |-> t.keys,
                  in_degree |-> t.in_degree, parent |-> <<>>, end_node |-> NoParent]
            ELSE LET sink_nodes == SelectSeq(t.order, LAMBDA nid : adj[nid] = <<>>)
                 IN  Relaxed(t,
                         RelaxOrder(adj, t.order, 1, lat,
                             [dist   |-> [n \in Range(node_ids) |-> 0],
                              parent |-> [n \in Range(node_ids) |-> NoParent],
                              err    |-> FALSE]),
                         IF sink_nodes # <<>> THEN sink_nodes ELSE t.order)
    IN  Ordered(topological_order(node_ids, adj, keys, in_degree))

\* ====================================== GraphAnalyzer.compute_parallel_steps
\* st = [depth, err]
RECURSIVE DepthNeighbours(_, _, _, _)
DepthNeighbours(adj, u, i, st) ==
    IF st.err \/ i > Len(adj[u]) THEN st
    ELSE LET v == adj[u][i] IN
         IF u \notin DOMAIN st.depth \/ v \notin DOMAIN st.depth
         THEN [st EXCEPT !.err = TRUE]
         ELSE DepthNeighbours(adj, u, i + 1,
                  [st EXCEPT !.depth[v] = Max2(@, st.depth[u] + 1)])

RECURSIVE DepthOrder(_, _, _, _)
DepthOrder(adj, order, i, st) ==
    IF st.err \/ i > Len(order) THEN st
    ELSE DepthOrder(adj, order, i + 1, DepthNeighbours(adj, order[i], 1, st))

\* [err |-> KeyError raised, steps |-> list of lists, keys]
compute_parallel_steps(node_ids, adj, keys, in_degree) ==
    LET \* after the depth loop
        Deepened(t, st) ==
            IF st.err \/ \E i \in 1..Len(t.order) : t.order[i] \notin DOMAIN st.depth
            THEN [err |-> TRUE, steps |-> <<>>, keys |-> t.keys,
                  in_degree |-> t.in_degree]
            ELSE LET max_depth == CHOOSE d \in {st.depth[n] : n \in Range(node_ids)} :
                                      \A n \in Range(node_ids) : st.depth[n] <= d
                 IN  [err   |-> FALSE,
                      steps |-> [d \in 1..(max_depth + 1) |->
                                   SelectSeq(t.order, LAMBDA nid : st.depth[nid] = d - 1)],
                      keys  |-> t.keys, in_degree |-> t.in_degree]
        \* after order = self.topological_order()
        Ordered(t) ==
            IF t.order = <<>>
            THEN [err |-> FALSE, steps |-> <<node_ids>>, keys |-> t.keys,
                  in_degree |-> t.in_degree]
            ELSE Deepened(t, DepthOrder(adj, t.order, 1,
                                 [depth |-> [n \in Range(node_ids) |-> 0],
                                  err   |-> FALSE]))
    IN  Ordered(topological_order(node_ids, adj, keys, in_degree))

\* ============================================================ estimator.py
\* Units.  Token counts are integers.  A catalog price is in thousandths of a
\* dollar per million tokens, so tokens * price is in 1e-9 dollars; a cost is
\* kept in 1e-8 dollars (the 8 decimals of round(cost, 8)).  A latency is kept
\* in milliseconds (the 3 decimals of round(latency, 3)).  A loop intensity is
\* in tenths.  None is the empty string, or 0 for the optional integers (their
\* validators admit no value below 1).

\* Python's round(): to the nearest multiple of d, halves to the even one
RoundHalfEvenDiv(x, d) ==
    LET q == x \div d
        r == x % d
    IN  IF 2 * r < d THEN q
        ELSE IF 2 * r > d THEN q + 1
        ELSE IF q % 2 = 0 THEN q ELSE q + 1

\* round(dollars, 8) of an amount in 1e-9 dollars, as 1e-8 dollars
Round8(nano) == RoundHalfEvenDiv(nano, 10)

\* A faulty variant of Round6: the amount is kept with its 8 decimals.
Round6Skipped(cost, up) == cost

\* round(dollars, 6) of an amount in 1e-8 dollars, as 1e-8 dollars.  The
\* amount rounded is a sum of binary floating-point numbers: when the decimal
\* sum lies on a half, the float lies a little under or over it and round()
\* goes down or up accordingly (up: which of the two).
Round6(cost, up) ==
    LET q == cost \div 100
        r == cost % 100
    IN  (IF r < 50 THEN q ELSE IF r > 50 THEN q + 1 ELSE IF up THEN q + 1 ELSE q) * 100

\* round(x * m / d): the same rounding of a product, computed from the
\* quotient and remainder of x so that no intermediate exceeds 32 bits.  The
\* scaling projection uses it: monthly_cost is kept in 1e-4 dollars (d = 10000
\* on 1e-8 dollars), monthly_compute_seconds in 1e-2 seconds (d = 10 on
\* milliseconds), cost_per_1k_runs in 1e-6 dollars (d = 100).
RoundHalfEvenMulDiv(x, m, d) ==
    LET p == (x % d) * m
        q == (x \div d) * m + p \div d
        r == p % d
    IN  IF 2 * r < d THEN q
        ELSE IF 2 * r > d THEN q + 1
        ELSE IF q % 2 = 0 THEN q ELSE q + 1

_BASE_SYSTEM_TOKENS == 200
_OUTPUT_RATIO == 15
_DEFAULT_TPS == 50
_DEFAULT_TOOL_SCHEMA_TOKENS == 200
_DEFAULT_TOOL_RESPONSE_TOKENS == 800
_DEFAULT_TOOL_LATENCY_MS == 200
_DEFAULT_MAX_STEPS == 10

\* _TASK_OUTPUT_MULTIPLIERS, in tenths
TaskTypes == <<"classification", "summarization", "code_generation",
               "rag_answer", "tool_orchestration", "routing">>
OutputSizes == <<"short", "medium", "long", "very_long">>
_TASK_OUTPUT_MULTIPLIERS ==
    [t \in Range(TaskTypes) |->
        CASE t = "classification"     -> [short |-> 3,  medium |-> 5,  long |-> 8,  very_long |-> 10]
          [] t = "summarization"      -> [short |-> 8,  medium |-> 12, long |-> 18, very_long |-> 25]
          [] t = "code_generation"    -> [short |-> 10, medium |-> 20, long |-> 30, very_long |-> 45]
          [] t = "rag_answer"         -> [short |-> 6,  medium |-> 12, long |-> 20, very_long |-> 30]
          [] t = "tool_orchestration" -> [short |-> 5,  medium |-> 10, long |-> 15, very_long |-> 20]
          [] t = "routing"            -> [short |-> 2,  medium |-> 4,  long |-> 6,  very_long |-> 8]]

get_output_multiplier(task_type, output_size) ==
    IF task_type # "" /\ output_size # ""
    THEN IF task_type \in DOMAIN _TASK_OUTPUT_MULTIPLIERS
            /\ output_size \in DOMAIN _TASK_OUTPUT_MULTIPLIERS[task_type]
         THEN _TASK_OUTPUT_MULTIPLIERS[task_type][output_size]
         ELSE _OUTPUT_RATIO
    ELSE _OUTPUT_RATIO

\* ------------------------------------------------- _build_tool_connections
\* nodes[i] is the node whose id is i.  The dict agent id -> list of tool ids,
\* total here (an agent without tools reads as the empty list).
IsNodeId(nodes, id) == id \in 1..Len(nodes)

\* A faulty variant of ConnectEdge: a tool is listed once for every edge that
\* joins it to the agent.
ConnectEdgePerEdge(nodes, e, agent_tools) ==
    LET src == e[1]
        tgt == e[2]
    IN  IF ~(IsNodeId(nodes, src) /\ IsNodeId(nodes, tgt)) THEN agent_tools
        ELSE IF nodes[src].type = "agentNode" /\ nodes[tgt].type = "toolNode"
        THEN [agent_tools EXCEPT ![src] = Append(@, tgt)]
        ELSE IF nodes[src].type = "toolNode" /\ nodes[tgt].type = "agentNode"
        THEN [agent_tools EXCEPT ![tgt] = Append(@, src)]
        ELSE agent_tools

\* one pass of the loop over the edges
ConnectEdge(nodes, e, agent_tools) ==
    LET src == e[1]
        tgt == e[2]
    IN  IF ~(IsNodeId(nodes, src) /\ IsNodeId(nodes, tgt)) THEN agent_tools
        ELSE IF nodes[src].type = "agentNode" /\ nodes[tgt].type = "toolNode"
        THEN IF Contains(agent_tools[src], tgt) THEN agent_tools
             ELSE [agent_tools EXCEPT ![src] = Append(@, tgt)]
        ELSE IF nodes[src].type = "toolNode" /\ nodes[tgt].type = "agentNode"
        THEN IF Contains(agent_tools[tgt], src) THEN agent_tools
             ELSE [agent_tools EXCEPT ![tgt] = Append(@, src)]
        ELSE agent_tools

RECURSIVE ConnectEdges(_, _, _, _)
ConnectEdges(nodes, edges, i, agent_tools) ==
    IF i > Len(edges) THEN agent_tools
    ELSE ConnectEdges(nodes, edges, i + 1, ConnectEdge(nodes, edges[i], agent_tools))

build_tool_connections(nodes, edges) ==
    ConnectEdges(nodes, edges, 1, [id \in 1..Len(nodes) |-> <<>>])

\* --------------------------------------------------------- _get_tool_impact
get_tool_impact(tool_node_id, tool_node, tools) ==
    IF tool_node.tool_id # "" /\ tool_node.tool_id \in DOMAIN tools
    THEN LET tool_def == tools[tool_node.tool_id]
         IN  [tool_node_id      |-> tool_node_id,
              tool_id           |-> tool_node.tool_id,
              schema_tokens     |-> tool_def.schema_tokens,
              response_tokens   |-> tool_def.avg_response_tokens,
              execution_latency |-> tool_def.latency_ms]
    ELSE [tool_node_id      |-> tool_node_id,
          tool_id           |-> "",
          schema_tokens     |-> _DEFAULT_TOOL_SCHEMA_TOKENS,
          response_tokens   |-> _DEFAULT_TOOL_RESPONSE_TOKENS,
          execution_latency |-> _DEFAULT_TOOL_LATENCY_MS]

\* -------------------------------------------------------- estimate_tool_node
\* A faulty variant of estimate_tool_node: a tool id that the catalog does not
\* hold gets no latency instead of the default.
estimate_tool_node_no_default(node_id, node, in_cycle, tools) ==
    LET known        == node.tool_id # "" /\ node.tool_id \in DOMAIN tools
        exec_latency == IF known THEN tools[node.tool_id].latency_ms ELSE 0
    IN  [node_id              |-> node_id,
         tokens               |-> 0,
         input_tokens         |-> 0,
         output_tokens        |-> 0,
         cost                 |-> 0,
         input_cost           |-> 0,
         output_cost          |-> 0,
         latency              |-> exec_latency,
         model_provider       |-> "",
         model_name           |-> "",
         tool_id              |-> node.tool_id,
         tool_impacts         |-> <<>>,
         tool_schema_tokens   |-> 0,
         tool_response_tokens |-> IF known THEN tools[node.tool_id].avg_response_tokens
                                  ELSE _DEFAULT_TOOL_RESPONSE_TOKENS,
         tool_latency         |-> exec_latency,
         in_cycle             |-> in_cycle]

estimate_tool_node(node_id, node, in_cycle, tools) ==
    LET known        == node.tool_id # "" /\ node.tool_id \in DOMAIN tools
        exec_latency == IF known THEN tools[node.tool_id].latency_ms
                        ELSE _DEFAULT_TOOL_LATENCY_MS
    IN  [node_id              |-> node_id,
         tokens               |-> 0,
         input_tokens         |-> 0,
         output_tokens        |-> 0,
         cost                 |-> 0,
         input_cost           |-> 0,
         output_cost          |-> 0,
         latency              |-> exec_latency,
         model_provider       |-> "",
         model_name           |-> "",
         tool_id              |-> node.tool_id,
         tool_impacts         |-> <<>>,
         tool_schema_tokens   |-> 0,
         tool_response_tokens |-> IF known THEN tools[node.tool_id].avg_response_tokens
                                  ELSE _DEFAULT_TOOL_RESPONSE_TOKENS,
         tool_latency         |-> exec_latency,
         in_cycle             |-> in_cycle]

\* ------------------------------------------------------- estimate_agent_node
\* node.context is the tokenizer's count for the node's context string
\* (count_tokens is tiktoken's, outside the repository).
estimate_agent_node(node_id, node, connected_tool_nodes, in_cycle, pricing, tools) ==
    LET key == <<node.model_provider, node.model_name>>
        \* the NodeEstimation built from the token counts, costs (1e-9 dollars)
        \* and latencies of the node
        Estimation(t, input_tokens, output_tokens, input_cost, output_cost,
                   llm_latency, scaled_tool_latency) ==
            [node_id              |-> node_id,
             tokens               |-> input_tokens + output_tokens,
             input_tokens         |-> input_tokens,
             output_tokens        |-> output_tokens,
             cost                 |-> Round8(input_cost + output_cost),
             input_cost           |-> Round8(input_cost),
             output_cost          |-> Round8(output_cost),
             latency              |-> llm_latency + scaled_tool_latency,
             model_provider       |-> node.model_provider,
             model_name           |-> node.model_name,
             tool_id              |-> "",
             tool_impacts         |-> t.tool_impacts,
             tool_schema_tokens   |-> t.total_schema_tokens,
             tool_response_tokens |-> t.total_response_tokens,
             tool_latency         |-> scaled_tool_latency,
             in_cycle             |-> in_cycle]
        \* after the token calculation
        Counted(t, input_tokens, output_tokens, scaled_tool_latency) ==
            IF key \notin DOMAIN pricing
            THEN Estimation(t, input_tokens, output_tokens, 0, 0, 0, scaled_tool_latency)
            ELSE Estimation(t, input_tokens, output_tokens,
                     input_tokens * pricing[key].input_per_million,
                     output_tokens * pricing[key].output_per_million,
                     RoundHalfEvenDiv(output_tokens * 1000,
                         IF pricing[key].tokens_per_sec # 0
                         THEN pricing[key].tokens_per_sec ELSE _DEFAULT_TPS),
                     scaled_tool_latency)
        \* after the tool impacts are summed
        Impacted(t, base_context_tokens, calls_multiplier) ==
            Counted(t,
                (base_context_tokens + t.total_schema_tokens + t.total_response_tokens)
                    * calls_multiplier,
                ((base_context_tokens
                     * get_output_multiplier(node.task_type, node.expected_output_size))
                     \div 10) * calls_multiplier,
                t.total_tool_latency * calls_multiplier)
        Summed(tool_impacts) ==
            Impacted(
                [tool_impacts          |-> tool_impacts,
                 total_schema_tokens   |-> SumSeq([i \in 1..Len(tool_impacts) |->
                                                      tool_impacts[i].schema_tokens]),
                 total_response_tokens |-> SumSeq([i \in 1..Len(tool_impacts) |->
                                                      tool_impacts[i].response_tokens]),
                 total_tool_latency    |-> SumSeq([i \in 1..Len(tool_impacts) |->
                                                      tool_impacts[i].execution_latency])],
                node.context + _BASE_SYSTEM_TOKENS,
                Max2(1, IF node.expected_calls_per_run # 0
                        THEN node.expected_calls_per_run ELSE 1))
    IN  Summed([i \in 1..Len(connected_tool_nodes) |->
                   get_tool_impact(connected_tool_nodes[i].id,
                                   connected_tool_nodes[i].node, tools)])

\* ------------------------------------------------------------ estimate_node
estimate_node(node_id, node, in_cycle) ==
    [node_id              |-> node_id,
     tokens               |-> 0,
     input_tokens         |-> 0,
     output_tokens        |-> 0,
     cost                 |-> 0,
     input_cost           |-> 0,
     output_cost          |-> 0,
     latency              |-> 0,
     model_provider       |-> "",
     model_name           |-> "",
     tool_id              |-> "",
     tool_impacts         |-> <<>>,
     tool_schema_tokens   |-> 0,
     tool_response_tokens |-> 0,
     tool_latency         |-> 0,
     in_cycle             |-> in_cycle]

\* ========================================================= estimate_workflow
CeilDiv(a, b) == (a + b - 1) \div b

\* A faulty variant of the iteration policy below: the cap of every node of
\* the group counts, whatever the node's type.
cycle_max_iterations_any_type(nodes, group_node_ids, recursion_limit, li) ==
    LET capped == SelectSeq(group_node_ids,
                      LAMBDA nid : IsNodeId(nodes, nid) /\ nodes[nid].max_steps # 0)
        steps == [i \in 1..Len(capped) |-> nodes[capped[i]].max_steps]
        max_iter == Min2(IF steps # <<>> THEN MinSeq(steps) ELSE _DEFAULT_MAX_STEPS,
                         recursion_limit)
    IN  Max2(1, Min2(recursion_limit, RoundHalfEvenDiv(max_iter * li, 10)))

\* the iteration policy of one cycle group (the body of the loop over
\* get_cycle_groups()); li is the loop intensity in tenths
cycle_max_iterations(nodes, group_node_ids, recursion_limit, li) ==
    LET capped == SelectSeq(group_node_ids,
                      LAMBDA nid : /\ IsNodeId(nodes, nid)
                                   /\ nodes[nid].type = "agentNode"
                                   /\ nodes[nid].max_steps # 0)
        agent_max_steps == [i \in 1..Len(capped) |-> nodes[capped[i]].max_steps]
        max_iter == Min2(IF agent_max_steps # <<>> THEN MinSeq(agent_max_steps)
                         ELSE _DEFAULT_MAX_STEPS,
                         recursion_limit)
    IN  Max2(1, Min2(recursion_limit, RoundHalfEvenDiv(max_iter * li, 10)))

\* A faulty variant of the expected iteration count: the half is rounded down.
cycle_expected_iterations_floor(max_iter) == Max2(1, max_iter \div 2)

\* expected_iter = max(1, math.ceil(max_iter / 2))
cycle_expected_iterations(max_iter) == Max2(1, CeilDiv(max_iter, 2))

\* sum(f(b) for b in breakdown if keep(b))
SumOver(breakdown, keep(_), f(_)) ==
    SumSeq([i \in 1..Len(breakdown) |->
               IF keep(breakdown[i]) THEN f(breakdown[i]) ELSE 0])

\* [node_map[tid] for tid in connected_tool_ids if tid in node_map], each
\* with its id
ConnectedTools(nodes, connected_tool_ids) ==
    LET ids == SelectSeq(connected_tool_ids, LAMBDA tid : IsNodeId(nodes, tid))
    IN  [j \in 1..Len(ids) |-> [id |-> ids[j], node |-> nodes[ids[j]]]]

\* the list xs as built by a loop: every element is evaluated once
Listed(xs) == SelectSeq(xs, LAMBDA x : TRUE)

\* the per-node estimation loop
BreakdownOf(nodes, agent_tools, cycle_node_ids, pricing, tools) ==
    Listed([i \in 1..Len(nodes) |->
        IF nodes[i].type = "agentNode"
        THEN estimate_agent_node(i, nodes[i], ConnectedTools(nodes, agent_tools[i]),
                                 i \in cycle_node_ids, pricing, tools)
        ELSE IF nodes[i].type = "toolNode"
        THEN estimate_tool_node(i, nodes[i], i \in cycle_node_ids, tools)
        ELSE estimate_node(i, nodes[i], i \in cycle_node_ids)])

\* A faulty variant of CycleInfoOf: the two iteration counts are passed in
\* each other's place.
CycleInfoOfSwapped(cycle_id, cg, max_iter) ==
    [cycle_id            |-> cycle_id,
     node_ids            |-> cg.node_ids,
     back_edges          |-> cg.back_edges,
     max_iterations      |-> cycle_expected_iterations(max_iter),
     expected_iterations |-> max_iter]

\* the CycleInfo of one cycle group
CycleInfoOf(cycle_id, cg, max_iter) ==
    [cycle_id            |-> cycle_id,
     node_ids            |-> cg.node_ids,
     back_edges          |-> cg.back_edges,
     max_iterations      |-> max_iter,
     expected_iterations |-> cycle_expected_iterations(max_iter)]

\* the loop over enumerate(analyzer.get_cycle_groups())
DetectedCyclesOf(nodes, groups, recursion_limit, li) ==
    Listed([idx \in 1..Len(groups) |->
        CycleInfoOf(idx - 1, groups[idx],
            cycle_max_iterations(nodes, groups[idx].node_ids, recursion_limit, li))])

\* the min / avg / max sums of one metric f over the DAG zone and the cycles
RangeOf(breakdown, detected_cycles, f(_)) ==
    LET dag == SumOver(breakdown, LAMBDA b : ~b.in_cycle, f)
        lap(ci) == SumOver(breakdown, LAMBDA b : b.node_id \in Range(ci.node_ids), f)
    IN  [min |-> dag + SumSeq([i \in 1..Len(detected_cycles) |->
                                  lap(detected_cycles[i]) * 1]),
         avg |-> dag + SumSeq([i \in 1..Len(detected_cycles) |->
                                  lap(detected_cycles[i]) * detected_cycles[i].expected_iterations]),
         max |-> dag + SumSeq([i \in 1..Len(detected_cycles) |->
                                  lap(detected_cycles[i]) * detected_cycles[i].max_iterations])]

\* node_cycle_iterations.get(node_id, 1): the max_iterations of the last
\* cycle group that holds the node
NodeCycleIterations(detected_cycles, node_id) ==
    LET holds == {i \in 1..Len(detected_cycles) :
                     node_id \in Range(detected_cycles[i].node_ids)}
    IN  IF holds = {} THEN 1
        ELSE detected_cycles[CHOOSE i \in holds : \A j \in holds : j <= i].max_iterations

\* x // 2 or 1
HalfOrOne(x) == IF x \div 2 # 0 THEN x \div 2 ELSE 1

\* the totals and the three ranges; ranged: is_cyclic and detected_cycles.
\* half_up tells how the min, avg and max cost sums round when they lie on a
\* half; two of them that are the same sum (every lap count equal) are the same
\* float and round the same way.
TotalsOf(breakdown, detected_cycles, ranged, half_up) ==
    LET laps(b) == IF ranged /\ b.in_cycle
                   THEN HalfOrOne(NodeCycleIterations(detected_cycles, b.node_id))
                   ELSE 1
        avg_up(costs) == IF costs.avg = costs.min THEN half_up.min ELSE half_up.avg
        max_up(costs) == IF costs.max = costs.avg THEN avg_up(costs) ELSE half_up.max
        Ranged(tokens, costs, lats) ==
            [total_tokens  |-> IF ranged THEN tokens.avg
                               ELSE SumOver(breakdown, LAMBDA b : TRUE, LAMBDA b : b.tokens),
             total_input_tokens  |-> SumOver(breakdown, LAMBDA b : TRUE,
                                         LAMBDA b : b.input_tokens * laps(b)),
             total_output_tokens |-> SumOver(breakdown, LAMBDA b : TRUE,
                                         LAMBDA b : b.output_tokens * laps(b)),
             total_cost    |-> IF ranged THEN Round6(costs.avg, avg_up(costs))
                               ELSE SumOver(breakdown, LAMBDA b : TRUE, LAMBDA b : b.cost),
             total_latency |-> IF ranged THEN lats.avg
                               ELSE SumOver(breakdown, LAMBDA b : TRUE, LAMBDA b : b.latency),
             total_tool_latency |-> SumOver(breakdown, LAMBDA b : TRUE,
                                        LAMBDA b : b.tool_latency),
             token_range   |-> IF ranged THEN <<tokens>> ELSE <<>>,
             cost_range    |-> IF ranged
                               THEN <<[min |-> Round6(costs.min, half_up.min),
                                       avg |-> Round6(costs.avg, avg_up(costs)),
                                       max |-> Round6(costs.max, max_up(costs))]>>
                               ELSE <<>>,
             latency_range |-> IF ranged THEN <<lats>> ELSE <<>>]
    IN  Ranged(RangeOf(breakdown, detected_cycles, LAMBDA b : b.tokens),
               RangeOf(breakdown, detected_cycles, LAMBDA b : b.cost),
               RangeOf(breakdown, detected_cycles, LAMBDA b : b.latency))

\* the ParallelStep list built from analyzer.compute_parallel_steps()
ParallelStepsOf(nodes, breakdown, raw_steps) ==
    LET lat(nid) == IF IsNodeId(nodes, nid) THEN breakdown[nid].latency ELSE 0
        known(ids) == SelectSeq(ids, LAMBDA nid : IsNodeId(nodes, nid))
    IN  [k \in 1..Len(raw_steps) |->
            [step          |-> k - 1,
             node_ids      |-> raw_steps[k],
             total_latency |-> IF raw_steps[k] = <<>> THEN 0
                               ELSE lat(FirstMax(raw_steps[k], lat)),
             total_cost    |-> SumSeq([j \in 1..Len(known(raw_steps[k])) |->
                                          breakdown[known(raw_steps[k])[j]].cost]),
             parallelism   |-> Len(raw_steps[k])]]

\* the scaling projection: <<>> when runs_per_day is None
ScalingProjectionOf(args, li, totals) ==
    IF args.runs_per_day # 0
    THEN <<[runs_per_day            |-> Max2(1, args.runs_per_day),
            runs_per_month          |-> Max2(1, args.runs_per_day) * 30,
            loop_intensity          |-> li,
            monthly_cost            |-> RoundHalfEvenMulDiv(totals.total_cost,
                                            Max2(1, args.runs_per_day) * 30, 10000),
            monthly_tokens          |-> totals.total_tokens * Max2(1, args.runs_per_day) * 30,
            monthly_compute_seconds |-> RoundHalfEvenMulDiv(totals.total_latency,
                                            Max2(1, args.runs_per_day) * 30, 10),
            cost_per_1k_runs        |-> RoundHalfEvenMulDiv(totals.total_cost, 1000, 100)]>>
    ELSE <<>>

\* ---------------------------------------------- _compute_bottleneck_shares
\* _HIGH_COST_MODEL_THRESHOLD = 10.0 dollars per million input tokens, in
\* milli-dollars
_HIGH_COST_MODEL_THRESHOLD == 10000

\* one step of the long division of x by d: h is the quotient and remainder
\* of x * k / d, the value those of x * 10k / d
DecimalShift(h, d) ==
    [q |-> 10 * h.q + (10 * h.r) \div d, r |-> (10 * h.r) % d]

\* the quotient rounded to the nearest integer, a half to the even one
RoundHalfEvenOf(h, d) ==
    IF 2 * h.r < d THEN h.q
    ELSE IF 2 * h.r > d THEN h.q + 1
    ELSE IF h.q % 2 = 0 THEN h.q ELSE h.q + 1

\* round(part / total, 4) if total > 0 else 0.0, in 1e-4: four steps of long
\* division, so that no intermediate value exceeds 10 * total
ShareOf(part, total) ==
    IF total > 0
    THEN RoundHalfEvenOf(
             DecimalShift(DecimalShift(DecimalShift(DecimalShift(
                 [q |-> part \div total, r |-> part % total],
                 total), total), total), total),
             total)
    ELSE 0

\* the position (from 1) of entry i in impacts after
\* impacts.sort(key=lambda x: x[0], reverse=True): the sort is stable, equal
\* impacts stay in breakdown order
ImpactRank(impacts, i) ==
    Cardinality({j \in 1..Len(impacts) :
                    impacts[j] > impacts[i] \/ (impacts[j] = impacts[i] /\ j <= i)})

\* A faulty variant of bottleneck_severity: an entry without cost and latency
\* is classified by its rank like any other.
bottleneck_severity_by_rank_only(rank, n, cost, latency) ==
    IF 5 * rank <= n THEN "high"
    ELSE IF 2 * rank <= n THEN "medium"
    ELSE "low"

\* the severity of the entry at position rank (from 1) of n:
\* pct = rank / n against 0.2 and 0.5
bottleneck_severity(rank, n, cost, latency) ==
    IF 5 * rank <= n /\ (cost > 0 \/ latency > 0) THEN "high"
    ELSE IF 2 * rank <= n /\ (cost > 0 \/ latency > 0) THEN "medium"
    ELSE "low"

\* the breakdown after _compute_bottleneck_shares has set cost_share,
\* latency_share (1e-4) and bottleneck_severity on every entry
compute_bottleneck_shares(breakdown, total_cost, total_latency) ==
    LET Ranked(shares, impacts) ==
            Listed([i \in 1..Len(breakdown) |->
                [cost_share          |-> shares[i].cost_share,
                 latency_share       |-> shares[i].latency_share,
                 bottleneck_severity |->
                     bottleneck_severity(ImpactRank(impacts, i), Len(breakdown),
                                         breakdown[i].cost, breakdown[i].latency)]
                @@ breakdown[i]])
        Shared(shares) ==
            Ranked(shares,
                   Listed([i \in 1..Len(breakdown) |->
                       Max2(shares[i].cost_share, shares[i].latency_share)]))
    IN  Shared(Listed([i \in 1..Len(breakdown) |->
                   [cost_share    |-> ShareOf(breakdown[i].cost, total_cost),
                    latency_share |-> ShareOf(breakdown[i].latency, total_latency)]]))

\* -------------------------------------------- _compute_cycle_contributions
\* the first breakdown entry of the cycle whose model the catalog prices at or
\* above the threshold: <<[provider, model]>>, or <<>> when there is none
ExpensiveModelOf(node_ids, breakdown, pricing) ==
    LET hits == SelectSeq(breakdown,
                    LAMBDA b : /\ b.node_id \in Range(node_ids)
                               /\ b.model_provider # "" /\ b.model_name # ""
                               /\ <<b.model_provider, b.model_name>> \in DOMAIN pricing
                               /\ pricing[<<b.model_provider, b.model_name>>].input_per_million
                                      >= _HIGH_COST_MODEL_THRESHOLD)
    IN  IF hits = <<>> THEN <<>>
        ELSE <<[provider |-> hits[1].model_provider, model |-> hits[1].model_name]>>

\* A faulty variant of risk_level: the iteration and cost tests of "high" are
\* tried before the expensive-model test of "critical".
risk_level_high_first(has_expensive_model, max_iterations, cost_contribution) ==
    IF max_iterations >= 15 \/ cost_contribution > 5000 THEN "high"
    ELSE IF has_expensive_model /\ max_iterations >= 20 THEN "critical"
    ELSE IF has_expensive_model THEN "high"
    ELSE IF max_iterations >= 5 \/ cost_contribution > 2000 THEN "medium"
    ELSE "low"

\* the if / elif chain of the risk classification; cost_contribution in 1e-4
risk_level(has_expensive_model, max_iterations, cost_contribution) ==
    IF has_expensive_model /\ max_iterations >= 20 THEN "critical"
    ELSE IF has_expensive_model \/ max_iterations >= 15 \/ cost_contribution > 5000
    THEN "high"
    ELSE IF max_iterations >= 5 \/ cost_contribution > 2000 THEN "medium"
    ELSE "low"

\* the reasons list joined into risk_reason, one record per reason: the
\* phrase, the model or the iteration count it quotes (the percentage quoted
\* by the two cost reasons is left out)
RiskReason(text, expensive, iterations) ==
    [text |-> text, model |-> expensive, iterations |-> iterations]

risk_reasons(expensive, max_iterations, cost_contribution) ==
    LET level == risk_level(expensive # <<>>, max_iterations, cost_contribution)
        when(c, r) == IF c THEN <<r>> ELSE <<>>
    IN  IF level = "critical"
        THEN << RiskReason("Expensive model", expensive, 0),
                RiskReason("High max iterations", <<>>, max_iterations) >>
        ELSE IF level = "high"
        THEN when(expensive # <<>>, RiskReason("Expensive model", expensive, 0))
             \o when(max_iterations >= 15,
                     RiskReason("High max iterations", <<>>, max_iterations))
             \o when(cost_contribution > 5000, RiskReason("Loop dominates cost", <<>>, 0))
        ELSE IF level = "medium"
        THEN when(max_iterations >= 5,
                  RiskReason("Moderate iterations", <<>>, max_iterations))
             \o when(cost_contribution > 2000,
                     RiskReason("Significant cost share", <<>>, 0))
        ELSE << RiskReason("Bounded loop with low cost impact", <<>>, 0) >>

\* one pass of the loop over detected_cycles: the CycleInfo with its per-lap
\* metrics, contributions (1e-4) and risk set
CycleContributionOf(ci, breakdown, total_cost, total_latency, pricing) ==
    LET in_cycle(b) == b.node_id \in Range(ci.node_ids)
        Classified(lap_tokens, lap_cost, lap_latency, cost_contribution, expensive) ==
            [tokens_per_lap       |-> lap_tokens,
             cost_per_lap         |-> lap_cost,
             latency_per_lap      |-> lap_latency,
             cost_contribution    |-> cost_contribution,
             latency_contribution |->
                 ShareOf(lap_latency * ci.expected_iterations, total_latency),
             risk_level           |->
                 risk_level(expensive # <<>>, ci.max_iterations, cost_contribution),
             risk_reason          |->
                 risk_reasons(expensive, ci.max_iterations, cost_contribution)]
            @@ ci
        Lapped(lap_tokens, lap_cost, lap_latency) ==
            Classified(lap_tokens, lap_cost, lap_latency,
                       ShareOf(lap_cost * ci.expected_iterations, total_cost),
                       ExpensiveModelOf(ci.node_ids, breakdown, pricing))
    IN  Lapped(SumOver(breakdown, in_cycle, LAMBDA b : b.tokens),
               SumOver(breakdown, in_cycle, LAMBDA b : b.cost),
               SumOver(breakdown, in_cycle, LAMBDA b : b.latency))

compute_cycle_contributions(detected_cycles, breakdown, total_cost, total_latency, pricing) ==
    Listed([k \in 1..Len(detected_cycles) |->
        CycleContributionOf(detected_cycles[k], breakdown, total_cost, total_latency,
                            pricing)])

\* ----------------------------------------------------- _compute_health_score
\* sum(sorted(shares, reverse=True)[:2])
TopTwoSum(shares) ==
    IF Len(shares) <= 1 THEN SumSeq(shares)
    ELSE LET m == CHOOSE i \in 1..Len(shares) :
                      \A j \in 1..Len(shares) : shares[j] <= shares[i]
             rest == [j \in 1..(Len(shares) - 1) |->
                         IF j < m THEN shares[j] ELSE shares[j + 1]]
         IN  shares[m] + (CHOOSE x \in Range(rest) : \A y \in Range(rest) : y <= x)

\* factor 1: top2_share (1e-4) against 0.4, 0.6 and 0.8
cost_concentration_score(top2_share) ==
    IF top2_share <= 4000 THEN 25
    ELSE IF top2_share <= 6000 THEN 18
    ELSE IF top2_share <= 8000 THEN 10
    ELSE 3

\* factor 2: the worst risk level among the cycles
loop_risk_score(detected_cycles) ==
    LET count(level) == Cardinality({k \in 1..Len(detected_cycles) :
                                        detected_cycles[k].risk_level = level})
    IN  IF detected_cycles = <<>> THEN 25
        ELSE IF count("critical") > 0 THEN 3
        ELSE IF count("high") > 0 THEN 10
        ELSE IF count("medium") > 0 THEN 18
        ELSE 22

\* the agent nodes counted as premium: priced by the catalog strictly above
\* the threshold
premium_count_of(nodes, pricing) ==
    Cardinality({i \in 1..Len(nodes) :
        /\ nodes[i].type = "agentNode"
        /\ nodes[i].model_provider # "" /\ nodes[i].model_name # ""
        /\ <<nodes[i].model_provider, nodes[i].model_name>> \in DOMAIN pricing
        /\ pricing[<<nodes[i].model_provider, nodes[i].model_name>>].input_per_million
               > _HIGH_COST_MODEL_THRESHOLD})

\* round(premium_ratio, 3) in 1e-3, premium_ratio = premium_count / agent_count
\* (0.0 without agents)
premium_ratio_of(premium_count, agent_count) ==
    IF agent_count > 0
    THEN RoundHalfEvenOf(
             DecimalShift(DecimalShift(DecimalShift(
                 [q |-> premium_count \div agent_count,
                  r |-> premium_count % agent_count],
                 agent_count), agent_count), agent_count),
             agent_count)
    ELSE 0

\* factor 3: premium_ratio against 0.2, 0.5 and 0.8
premium_models_score(premium_count, agent_count) ==
    IF agent_count = 0 \/ 5 * premium_count <= agent_count THEN 25
    ELSE IF 2 * premium_count <= agent_count THEN 18
    ELSE IF 5 * premium_count <= 4 * agent_count THEN 10
    ELSE 3

\* factor 4: parallelism_benefit = 1 - critical_path_latency / total_latency
\* against 0.3, 0.15 and 0.05
latency_balance_score(total_latency, critical_path_latency) ==
    IF total_latency > 0 /\ critical_path_latency > 0
    THEN IF 10 * critical_path_latency <= 7 * total_latency THEN 25
         ELSE IF 100 * critical_path_latency <= 85 * total_latency THEN 20
         ELSE IF 100 * critical_path_latency <= 95 * total_latency THEN 15
         ELSE 8
    ELSE 15

\* A faulty variant of health_grade: each grade starts one point too high.
health_grade_exclusive(composite) ==
    IF composite > 85 THEN "A"
    ELSE IF composite > 70 THEN "B"
    ELSE IF composite > 55 THEN "C"
    ELSE IF composite > 40 THEN "D"
    ELSE "F"

health_grade(composite) ==
    IF composite >= 85 THEN "A"
    ELSE IF composite >= 70 THEN "B"
    ELSE IF composite >= 55 THEN "C"
    ELSE IF composite >= 40 THEN "D"
    ELSE "F"

\* the HealthScore.  details holds each factor's score, the cycle count and
\* the premium ratio; the read-outs top2_share and critical_vs_total (floats
\* rounded to 3 places) are not carried.
compute_health_score(breakdown, detected_cycles, nodes, total_cost, total_latency, critical_path_latency, pricing) ==
    LET when(c, badge) == IF c THEN <<badge>> ELSE <<>>
        agent_count == Cardinality({i \in 1..Len(nodes) : nodes[i].type = "agentNode"})
        Scored(cost_score, loop_score, model_score, latency_score, premium_ratio) ==
            [grade   |-> health_grade(cost_score + loop_score + model_score
                                          + latency_score),
             score   |-> cost_score + loop_score + model_score + latency_score,
             badges  |-> when(cost_score = 25, "Cost-efficient")
                         \o when(cost_score <= 10, "Cost-concentrated")
                         \o when(loop_score = 25, "Loop-free")
                         \o when(loop_score <= 10, "Loop-heavy")
                         \o when(model_score = 25 /\ agent_count > 0, "Budget-friendly")
                         \o when(model_score <= 10, "High premium-model usage")
                         \o when(latency_score = 8, "Latency-sensitive"),
             details |-> [cost_concentration |-> [score |-> cost_score],
                          loop_risk          |-> [score |-> loop_score,
                                                  cycle_count |-> Len(detected_cycles)],
                          premium_models     |-> [score |-> model_score,
                                                  premium_ratio |-> premium_ratio],
                          latency_balance    |-> [score |-> latency_score]]]
        costly == SelectSeq(breakdown, LAMBDA b : b.cost > 0)
    IN  Scored(cost_concentration_score(
                   TopTwoSum([i \in 1..Len(costly) |-> costly[i].cost_share])),
               loop_risk_score(detected_cycles),
               premium_models_score(premium_count_of(nodes, pricing), agent_count),
               latency_balance_score(total_latency, critical_path_latency),
               premium_ratio_of(premium_count_of(nodes, pricing), agent_count))

\* the SensitivityReadout: the ranges of a cyclic workflow, the totals else
SensitivityOf(cyclic, totals) ==
    IF cyclic /\ totals.cost_range # <<>> /\ totals.latency_range # <<>>
    THEN [cost_min    |-> totals.cost_range[1].min,
          cost_avg    |-> totals.cost_range[1].avg,
          cost_max    |-> totals.cost_range[1].max,
          latency_min |-> totals.latency_range[1].min,
          latency_avg |-> totals.latency_range[1].avg,
          latency_max |-> totals.latency_range[1].max]
    ELSE [cost_min    |-> totals.total_cost,
          cost_avg    |-> totals.total_cost,
          cost_max    |-> totals.total_cost,
          latency_min |-> totals.total_latency,
          latency_avg |-> totals.total_latency,
          latency_max |-> totals.total_latency]

Raised == [raised |-> TRUE]

\* estimate_workflow from the per-node loop on: cycle_groups and is_cyc are
\* what get_cycle_groups() and is_cyclic() returned, estimations is the list
\* the per-node loop built, pricing is the pricing table as the cycle
\* contributions and the health score read it.
estimate_workflow_from(nodes, edges, args, cycle_groups, is_cyc, estimations, pricing, half_up) ==
    LET node_ids  == [i \in 1..Len(nodes) |-> i]
        adj       == AdjOf(edges)
        in_degree == InDegreeOf(node_ids, edges)
        li        == IF args.loop_intensity # 0 THEN args.loop_intensity ELSE 10
        \* the WorkflowEstimation returned
        Measured(cyclic, breakdown, detected_cycles, totals, cp, ps,
                 critical_path_latency) ==
            [raised                |-> FALSE,
             total_tokens          |-> totals.total_tokens,
             total_input_tokens    |-> totals.total_input_tokens,
             total_output_tokens   |-> totals.total_output_tokens,
             total_cost            |-> totals.total_cost,
             total_latency         |-> totals.total_latency,
             total_tool_latency    |-> totals.total_tool_latency,
             graph_type            |-> IF cyclic THEN "CYCLIC" ELSE "DAG",
             breakdown             |-> breakdown,
             critical_path         |-> cp.path,
             detected_cycles       |-> detected_cycles,
             token_range           |-> totals.token_range,
             cost_range            |-> totals.cost_range,
             latency_range         |-> totals.latency_range,
             recursion_limit       |-> args.recursion_limit,
             parallel_steps        |-> ParallelStepsOf(nodes, breakdown, ps.steps),
             critical_path_latency |-> critical_path_latency,
             scaling_projection    |-> ScalingProjectionOf(args, li, totals),
             sensitivity           |-> SensitivityOf(cyclic, totals),
             health                |->
                 compute_health_score(breakdown, detected_cycles, nodes,
                     totals.total_cost, totals.total_latency,
                     critical_path_latency, pricing)]
        \* after analyzer.compute_parallel_steps()
        Stepped(cyclic, breakdown, detected_cycles, totals, cp, ps) ==
            IF ps.err THEN Raised
            ELSE Measured(cyclic, breakdown, detected_cycles, totals, cp, ps,
                     SumSeq([i \in 1..Len(cp.path) |->
                                IF IsNodeId(nodes, cp.path[i])
                                THEN breakdown[cp.path[i]].latency ELSE 0]))
        \* after analyzer.weighted_critical_path(latency_map)
        Pathed(cyclic, breakdown, detected_cycles, totals, cp) ==
            IF cp.err THEN Raised
            ELSE Stepped(cyclic, breakdown, detected_cycles, totals, cp,
                     compute_parallel_steps(node_ids, adj, cp.keys, in_degree))
        \* after the totals and the ranges: the bottleneck shares and the cycle
        \* contributions are set on the breakdown and the CycleInfo list
        Totalled(cyc, breakdown, detected_cycles, totals) ==
            Pathed(cyc.res = "True",
                compute_bottleneck_shares(breakdown, totals.total_cost,
                                          totals.total_latency),
                IF detected_cycles # <<>>
                THEN compute_cycle_contributions(detected_cycles, breakdown,
                         totals.total_cost, totals.total_latency, pricing)
                ELSE detected_cycles,
                totals,
                weighted_critical_path(node_ids, adj, cyc.keys, in_degree,
                    [i \in 1..Len(nodes) |-> breakdown[i].latency]))
        \* after the breakdown and the CycleInfo list are built
        Estimated(cyc, breakdown, detected_cycles) ==
            Totalled(cyc, breakdown, detected_cycles,
                TotalsOf(breakdown, detected_cycles,
                         cyc.res = "True" /\ detected_cycles # <<>>, half_up))
    IN  IF is_cyc.res = "KeyError" THEN Raised
        ELSE Estimated(is_cyc, estimations,
                 IF is_cyc.res = "True"
                 THEN DetectedCyclesOf(nodes, cycle_groups, args.recursion_limit, li)
                 ELSE <<>>)

\* args = [recursion_limit, runs_per_day (0: None), loop_intensity (tenths,
\* 0: None)]; pricing and tools are the two registries' lookup tables.  The
\* value is Raised when the call ends in an exception, the WorkflowEstimation
\* otherwise.  half_up: how this call's cost sums round on a half.
estimate_workflow(nodes, edges, args, pricing, tools, half_up) ==
    LET node_ids == [i \in 1..Len(nodes) |-> i]
        adj      == AdjOf(edges)
        \* after analyzer.get_nodes_in_cycles() and analyzer.is_cyclic()
        Analyzed(groups, cyc) ==
            estimate_workflow_from(nodes, edges, args, groups, cyc,
                BreakdownOf(nodes, build_tool_connections(nodes, edges),
                            nodes_in_cycles_of(groups), pricing, tools),
                pricing, half_up)
    IN  Analyzed(cycle_groups_of(adj, compute_sccs(node_ids, adj)),
                 is_cyclic(node_ids, adj, AdjKeys(edges)))

\* ============================================================ the catalogs
\* registry._lookup after registry.load() and tool_registry._lookup after
\* tool_registry.load().  The data files are not part of the sources; these
\* entries stand for a catalog with a cheap model, a model priced exactly at
\* the expensive-model threshold, a premium model and one tool.
LoadedPricing ==
    (<<"OpenAI", "mini">> :> [input_per_million |-> 150, output_per_million |-> 600,
                              tokens_per_sec |-> 100])
    @@ (<<"OpenAI", "ten">> :> [input_per_million |-> 10000, output_per_million |-> 30000,
                                tokens_per_sec |-> 0])
    @@ (<<"Anthropic", "pro">> :> [input_per_million |-> 15000, output_per_million |-> 60000,
                                   tokens_per_sec |-> 30])

LoadedTools ==
    ("search" :> [schema_tokens |-> 150, avg_response_tokens |-> 500, latency_ms |-> 300])

\* ============================================================== the inputs
\* NodeConfig values (models.py): the fields the estimator reads
NodeConfigOf(type, provider, model, context, max_steps, task, size, calls, tool) ==
    [type |-> type, model_provider |-> provider, model_name |-> model,
     context |-> context, max_steps |-> max_steps, task_type |-> task,
     expected_output_size |-> size, expected_calls_per_run |-> calls,
     tool_id |-> tool]

NodeConfigs ==
    << NodeConfigOf("agentNode", "OpenAI", "mini", 7, 0, "", "", 0, ""),
       NodeConfigOf("agentNode", "Anthropic", "pro", 0, 6, "code_generation", "long", 0, ""),
       NodeConfigOf("toolNode", "", "", 0, 2, "", "", 0, "search"),
       NodeConfigOf("agentNode", "Local", "unlisted", 13, 3, "routing", "short", 2, ""),
       NodeConfigOf("startNode", "", "", 0, 1, "", "", 0, ""),
       NodeConfigOf("toolNode", "", "", 0, 0, "", "", 0, "nope"),
       NodeConfigOf("agentNode", "OpenAI", "ten", 3, 4, "", "", 0, "") >>

\* the node list of a request: n nodes, the configs taken in turn from v on
NodeList(n, v) ==
    [i \in 1..n |-> NodeConfigs[((v + i - 2) % Len(NodeConfigs)) + 1]]

\* the edge lists (multi-edges and any order) over the ids in ends
EdgeLists(ends) == SeqsUpTo(ends \X ends, MaxEdges)

\* the edge lists without a repeated edge, in lexicographic order
Before(e, f) == e[1] < f[1] \/ (e[1] = f[1] /\ e[2] < f[2])

SortedEdgeLists(ends) ==
    {es \in EdgeLists(ends) : \A i \in 1..(Len(es) - 1) : Before(es[i], es[i + 1])}

\* arguments of estimate_workflow: recursion_limit in 1..200, runs_per_day
\* (0: None), loop_intensity in tenths, 1..50 (0: None)
ArgsOf(rl, rpd, li) == [recursion_limit |-> rl, runs_per_day |-> rpd, loop_intensity |-> li]

CallArgs ==
    { ArgsOf(25, 0, 0), ArgsOf(2, 0, 10), ArgsOf(25, 10, 5), ArgsOf(1, 0, 5),
      ArgsOf(7, 0, 1), ArgsOf(200, 1, 50) }

\* ================================================================ the state
VARIABLES
    nodes,           \* the request's node list
    edges,           \* the request's edge list
    pricing_lookup,  \* pricing_registry.registry._lookup
    tool_lookup,     \* tool_registry.tool_registry._lookup
    response,        \* the estimate_workflow calls so far, in order: [args, res]
    float_half_up,   \* how the float cost sums of this request round on a half
    analyzer,        \* a GraphAnalyzer(node ids, edges): its mutable fields
    ret,             \* <<>>, or the last query on analyzer: <<[op, val]>>
    node_call,       \* <<>>, or one call of the per-node estimation:
                     \* <<[node, connected_tool_nodes, in_cycle, res]>>
    shares_call,     \* <<>>, or one call of _compute_bottleneck_shares:
                     \* <<[breakdown, total_cost, total_latency, computed]>>
    in_flight,       \* the estimate_workflow calls of concurrent callers that
                     \* have not returned yet, each with its local variables
    running          \* <<>>, or the operation that is being run loop step by
                     \* loop step, with its local variables

vars == <<nodes, edges, pricing_lookup, tool_lookup, response, float_half_up, analyzer, ret,
          node_call, shares_call, in_flight, running>>

NodeIdsOf(ns) == [i \in 1..Len(ns) |-> i]

\* GraphAnalyzer.__init__: adj and in_degree are AdjOf(edges) and
\* InDegreeOf(node ids, edges); the fields that change afterwards are the
\* defaultdict's key set and the two caches (<<>>: None, <<x>>: x)
GraphAnalyzerInit(node_ids, es) ==
    [adj |-> AdjOf(es), adj_keys |-> AdjKeys(es),
     in_degree |-> InDegreeOf(node_ids, es),
     _sccs |-> <<>>, _cycle_groups |-> <<>>]

\* the ways the three cost sums of a request can round on a half
HalfUps == [{"min", "avg", "max"} -> BOOLEAN]

HalfEven == [p \in {"min", "avg", "max"} |-> FALSE]

\* the min, avg and max cost sums of a request under each of the arguments in
\* argss, as estimate_workflow adds them up before rounding
CostSumsOf(ns, groups, breakdown, argss) ==
    {RangeOf(breakdown,
             DetectedCyclesOf(ns, groups, args.recursion_limit,
                 IF args.loop_intensity # 0 THEN args.loop_intensity ELSE 10),
             LAMBDA b : b.cost) : args \in argss}

\* the roundings to tell apart for the request with nodes ns and edges es
\* called with arguments in argss: the way a sum rounds on a half counts only
\* for a sum that lies on a half under some of the arguments, in a request
\* with a cycle group (without one no cost sum is rounded to 6 places)
HalfUpsOf(ns, es, argss) ==
    LET Among(groups, sums) ==
            {up \in HalfUps :
                \A p \in {"min", "avg", "max"} :
                    up[p] => groups # <<>> /\ \E r \in sums : r[p] % 100 = 50}
        Summed(groups) ==
            Among(groups,
                  CostSumsOf(ns, groups,
                      BreakdownOf(ns, build_tool_connections(ns, es),
                                  nodes_in_cycles_of(groups), LoadedPricing, LoadedTools),
                      argss))
    IN  Summed(cycle_groups_of(AdjOf(es), compute_sccs(NodeIdsOf(ns), AdjOf(es))))

InitWith(n, v, es, up) ==
    /\ nodes = NodeList(n, v)
    /\ float_half_up = up
    /\ edges = es
    /\ pricing_lookup = LoadedPricing
    /\ tool_lookup = LoadedTools
    /\ response = <<>>
    /\ analyzer = GraphAnalyzerInit([i \in 1..n |-> i], es)
    /\ ret = <<>>
    /\ node_call = <<>>
    /\ shares_call = <<>>
    /\ in_flight = <<>>
    /\ running = <<>>

\* ------------------------------------------------------------ the estimator
\* A faulty variant of Estimate: the call takes the entries it looks up out
\* of the pricing table (a pop where the code has a get).
EstimateConsuming(args) ==
    /\ response' = Append(response,
                       [args |-> args,
                        res  |-> estimate_workflow(nodes, edges, args,
                                                   pricing_lookup, tool_lookup,
                                                   float_half_up)])
    /\ pricing_lookup' =
           [k \in DOMAIN pricing_lookup
                  \ {<<nodes[i].model_provider, nodes[i].model_name>> :
                         i \in 1..Len(nodes)}
               |-> pricing_lookup[k]]
    /\ UNCHANGED <<nodes, edges, tool_lookup, float_half_up, analyzer, ret,
                   node_call, shares_call, in_flight, running>>

\* one call of estimate_workflow on the request (a fresh GraphAnalyzer is
\* built inside the call; the registries are read, never written)
Estimate(args) ==
    /\ response' = Append(response,
                       [args |-> args,
                        res  |-> estimate_workflow(nodes, edges, args,
                                                   pricing_lookup, tool_lookup,
                                                   float_half_up)])
    /\ UNCHANGED <<nodes, edges, pricing_lookup, tool_lookup, float_half_up, analyzer, ret,
                   node_call, shares_call, in_flight, running>>

\* requests whose edges join nodes of the request
Init ==
    \E n \in 0..MaxNodes :
        \E es \in SortedEdgeLists(1..n) :
            \E v \in 1..Len(NodeConfigs) :
                \E up \in HalfUpsOf(NodeList(n, v), es, CallArgs) : InitWith(n, v, es, up)

\* nothing has been asked yet: no estimate_workflow call, no analyzer query
Fresh == response = <<>> /\ ret = <<>>

\* a behaviour is one call on one request
Next == Fresh /\ \E args \in CallArgs : Estimate(args)

Spec == Init /\ [][Next]_vars

\* up to MaxCalls calls on the same request, one after the other.  The float
\* arithmetic of a call is fixed by its inputs: calls with the same arguments
\* round the same way, as float_half_up says.
RepeatArgs == { ArgsOf(25, 0, 0), ArgsOf(2, 10, 5) }

InitRepeat ==
    \E n \in 0..MaxNodes :
        \E es \in SortedEdgeLists(1..n) :
            \E up \in HalfUpsOf(NodeList(n, 1), es, RepeatArgs) : InitWith(n, 1, es, up)

NextRepeat == Len(response) < MaxCalls /\ \E args \in RepeatArgs : Estimate(args)

SpecRepeat == InitRepeat /\ [][NextRepeat]_vars

\* ------------------------------------------------- the analyzer's queries
Adj == analyzer.adj
InDegree == analyzer.in_degree

\* the sccs property: computed once, then cached
SccsOf(an) ==
    IF an._sccs # <<>> THEN an._sccs[1] ELSE compute_sccs(NodeIdsOf(nodes), Adj)

\* get_cycle_groups(): computed once from self.sccs, then cached
CycleGroupsOf(an) ==
    IF an._cycle_groups # <<>> THEN an._cycle_groups[1]
    ELSE cycle_groups_of(Adj, SccsOf(an))

\* the last answer: the query, its argument (<<>>: none) and what it returned
AnswerWith(op, arg, val) == ret' = <<[op |-> op, arg |-> arg, val |-> val]>>

Answer(op, val) == AnswerWith(op, <<>>, val)

Frame == UNCHANGED <<nodes, edges, pricing_lookup, tool_lookup, response, float_half_up,
                     node_call, shares_call, in_flight, running>>

IsCyclic ==
    /\ LET r == is_cyclic(NodeIdsOf(nodes), Adj, analyzer.adj_keys)
       IN  /\ Answer("is_cyclic", r.res)
           /\ analyzer' = [analyzer EXCEPT !.adj_keys = r.keys]
    /\ Frame

TopologicalOrder ==
    /\ LET r == topological_order(NodeIdsOf(nodes), Adj, analyzer.adj_keys, InDegree)
       IN  /\ Answer("topological_order", r.order)
           /\ analyzer' = [analyzer EXCEPT !.adj_keys = r.keys,
                                           !.in_degree = r.in_degree]
    /\ Frame

Sccs ==
    /\ Answer("sccs", SccsOf(analyzer))
    /\ analyzer' = [analyzer EXCEPT !._sccs = <<SccsOf(analyzer)>>]
    /\ Frame

GetCycleGroups ==
    /\ Answer("get_cycle_groups", CycleGroupsOf(analyzer))
    /\ analyzer' = [analyzer EXCEPT !._sccs = <<SccsOf(analyzer)>>,
                                    !._cycle_groups = <<CycleGroupsOf(analyzer)>>]
    /\ Frame

GetNodesInCycles ==
    /\ Answer("get_nodes_in_cycles", nodes_in_cycles_of(CycleGroupsOf(analyzer)))
    /\ analyzer' = [analyzer EXCEPT !._sccs = <<SccsOf(analyzer)>>,
                                    !._cycle_groups = <<CycleGroupsOf(analyzer)>>]
    /\ Frame

GetNodesOutsideCycles ==
    /\ Answer("get_nodes_outside_cycles",
              nodes_outside_cycles_of(NodeIdsOf(nodes), CycleGroupsOf(analyzer)))
    /\ analyzer' = [analyzer EXCEPT !._sccs = <<SccsOf(analyzer)>>,
                                    !._cycle_groups = <<CycleGroupsOf(analyzer)>>]
    /\ Frame

Query ==
    \/ IsCyclic
    \/ TopologicalOrder
    \/ Sccs
    \/ GetCycleGroups
    \/ GetNodesInCycles
    \/ GetNodesOutsideCycles

\* classify(): [res |-> "CYCLIC", "DAG" or "KeyError", keys]
classify(node_ids, adj, keys) ==
    LET r == is_cyclic(node_ids, adj, keys)
    IN  [res  |-> IF r.res = "KeyError" THEN "KeyError"
                  ELSE IF r.res = "True" THEN "CYCLIC" ELSE "DAG",
         keys |-> r.keys]

Classify ==
    /\ LET r == classify(NodeIdsOf(nodes), Adj, analyzer.adj_keys)
       IN  /\ Answer("classify", r.res)
           /\ analyzer' = [analyzer EXCEPT !.adj_keys = r.keys]
    /\ Frame

\* latency maps a caller passes: every node at 0, latencies rising with the
\* id, latencies falling with the id, and a map that holds no node
QueryLatencyMaps ==
    {[i \in 1..Len(nodes) |-> 0], [i \in 1..Len(nodes) |-> 100 * i],
     [i \in 1..Len(nodes) |-> 100 * (Len(nodes) - i)], <<>>}

WeightedCriticalPath(latency_map) ==
    /\ LET r == weighted_critical_path(NodeIdsOf(nodes), Adj, analyzer.adj_keys,
                                       InDegree, latency_map)
       IN  /\ AnswerWith("weighted_critical_path", latency_map,
                         [err |-> r.err, path |-> r.path])
           /\ analyzer' = [analyzer EXCEPT !.adj_keys = r.keys,
                                           !.in_degree = r.in_degree]
    /\ Frame

ComputeParallelSteps ==
    /\ LET r == compute_parallel_steps(NodeIdsOf(nodes), Adj, analyzer.adj_keys, InDegree)
       IN  /\ Answer("compute_parallel_steps", [err |-> r.err, steps |-> r.steps])
           /\ analyzer' = [analyzer EXCEPT !.adj_keys = r.keys,
                                           !.in_degree = r.in_degree]
    /\ Frame

AnyQuery ==
    \/ Query
    \/ Classify
    \/ \E latency_map \in QueryLatencyMaps : WeightedCriticalPath(latency_map)
    \/ ComputeParallelSteps

\* what a query returns when it is the first one on a new instance
FirstAnswer(op, arg) ==
    LET node_ids == NodeIdsOf(nodes)
        an       == GraphAnalyzerInit(node_ids, edges)
        sccs     == compute_sccs(node_ids, an.adj)
        groups   == cycle_groups_of(an.adj, sccs)
        wcp      == weighted_critical_path(node_ids, an.adj, an.adj_keys, an.in_degree, arg)
        steps    == compute_parallel_steps(node_ids, an.adj, an.adj_keys, an.in_degree)
    IN  CASE op = "is_cyclic" -> is_cyclic(node_ids, an.adj, an.adj_keys).res
          [] op = "topological_order" ->
                 topological_order(node_ids, an.adj, an.adj_keys, an.in_degree).order
          [] op = "classify" -> classify(node_ids, an.adj, an.adj_keys).res
          [] op = "weighted_critical_path" -> [err |-> wcp.err, path |-> wcp.path]
          [] op = "compute_parallel_steps" -> [err |-> steps.err, steps |-> steps.steps]
          [] op = "sccs" -> sccs
          [] op = "get_cycle_groups" -> groups
          [] op = "get_nodes_in_cycles" -> nodes_in_cycles_of(groups)
          [] op = "get_nodes_outside_cycles" -> nodes_outside_cycles_of(node_ids, groups)

\* analyzers of graphs whose edges join node ids: every list of fewer than
\* MaxEdges edges (repeated edges, any order) and the sorted lists of MaxEdges
\* distinct edges
AnalyzerEdgeLists(ends) ==
    SeqsUpTo(ends \X ends, MaxEdges - 1) \cup SortedEdgeLists(ends)

InitAnalyzer ==
    \E n \in 0..MaxNodes : \E es \in AnalyzerEdgeLists(1..n) : InitWith(n, 1, es, HalfEven)

\* a behaviour is one query on the instance as constructed
NextAnalyzer == Fresh /\ Query

SpecAnalyzer == InitAnalyzer /\ [][NextAnalyzer]_vars

\* a behaviour is any sequence of queries on one instance; the graphs are those
\* of the requests, and those with an edge from or to an id no node carries
InitQueries ==
    \E n \in 0..MaxNodes :
        \E es \in SortedEdgeLists(1..n) \cup SeqsUpTo(((1..n) \cup {DanglingId}) \X (1..n), 1) :
            InitWith(n, 1, es, HalfEven)

NextQueries == response = <<>> /\ AnyQuery

SpecQueries == InitQueries /\ [][NextQueries]_vars

\* requests with edges from or to an id that no node carries
InitDangling ==
    \E n \in 0..MaxNodes :
        \E es \in SortedEdgeLists((1..n) \cup {DanglingId}) :
            \E up \in HalfUpsOf(NodeList(n, 1), es, CallArgs) : InitWith(n, 1, es, up)

NextDangling == Next \/ NextAnalyzer

SpecDangling == InitDangling /\ [][NextDangling]_vars

\* ------------------------------------------------- the per-node estimation
\* no request: the registries loaded, nothing asked
NoRequest ==
    /\ nodes = <<>>
    /\ edges = <<>>
    /\ pricing_lookup = LoadedPricing
    /\ tool_lookup = LoadedTools
    /\ response = <<>>
    /\ float_half_up = HalfEven
    /\ analyzer = GraphAnalyzerInit(<<>>, <<>>)
    /\ ret = <<>>
    /\ in_flight = <<>>
    /\ running = <<>>

\* tool nodes: a catalog tool, a tool id the catalog does not hold, no tool id
ToolInputs ==
    {NodeConfigOf("toolNode", "", "", 0, 0, "", "", 0, tool) : tool \in {"search", "nope", ""}}

\* agent nodes: a priced model, a pair the catalog does not hold, provider or
\* model or both unset; with and without context, task classification and
\* calls-per-run
AgentInputs ==
    {NodeConfigOf("agentNode", m[1], m[2], context, 0, task[1], task[2], calls, "") :
        m \in {<<"OpenAI", "mini">>, <<"Local", "unlisted">>, <<"", "">>,
               <<"OpenAI", "">>, <<"", "mini">>},
        context \in {0, 7},
        task \in {<<"", "">>, <<"routing", "short">>},
        calls \in {0, 2}}

NodeInputs ==
    AgentInputs \cup ToolInputs \cup {NodeConfigOf("startNode", "", "", 0, 0, "", "", 0, "")}

\* A faulty variant of NodeEstimationOf: an agent whose model the catalog does
\* not price is estimated like a node without a cost model.
NodeEstimationOfPricedOnly(node_id, node, connected_tool_nodes, in_cycle, pricing, tools) ==
    IF /\ node.type = "agentNode"
       /\ <<node.model_provider, node.model_name>> \in DOMAIN pricing
    THEN estimate_agent_node(node_id, node, connected_tool_nodes, in_cycle, pricing, tools)
    ELSE IF node.type = "toolNode" THEN estimate_tool_node(node_id, node, in_cycle, tools)
    ELSE estimate_node(node_id, node, in_cycle)

\* the body of the per-node estimation loop: the estimation by node type
NodeEstimationOf(node_id, node, connected_tool_nodes, in_cycle, pricing, tools) ==
    IF node.type = "agentNode"
    THEN estimate_agent_node(node_id, node, connected_tool_nodes, in_cycle, pricing, tools)
    ELSE IF node.type = "toolNode" THEN estimate_tool_node(node_id, node, in_cycle, tools)
    ELSE estimate_node(node_id, node, in_cycle)

\* the estimation of node 1 with up to MaxTools connected tool nodes 2, 3, ...
InitNode ==
    \E node \in NodeInputs :
        \E connected \in SeqsUpTo(ToolInputs, MaxTools) :
            \E in_cycle \in BOOLEAN :
                /\ NoRequest
                /\ shares_call = <<>>
                /\ node_call =
                       <<[node                 |-> node,
                          connected_tool_nodes |->
                              [j \in 1..Len(connected) |->
                                  [id |-> j + 1, node |-> connected[j]]],
                          in_cycle             |-> in_cycle,
                          res                  |-> <<>>]>>

EstimateNode ==
    /\ node_call # <<>>
    /\ node_call[1].res = <<>>
    /\ node_call' =
           <<[node_call[1] EXCEPT !.res =
                 <<NodeEstimationOf(1, node_call[1].node,
                                    node_call[1].connected_tool_nodes,
                                    node_call[1].in_cycle, pricing_lookup, tool_lookup)>>]>>
    /\ UNCHANGED <<nodes, edges, pricing_lookup, tool_lookup, response, float_half_up,
                   analyzer, ret, shares_call, in_flight, running>>

NextNode == EstimateNode

SpecNode == InitNode /\ [][NextNode]_vars

\* ------------------------------------------- the bottleneck shares, alone
\* the cost (1e-8 dollars) and latency (ms) of a breakdown entry
EntryFigures == {<<0, 0>>, <<3, 0>>, <<1, 2>>}

\* breakdowns of up to MaxBreakdown entries, with the totals of a workflow
\* without cycle: the sums of the entries
InitShares ==
    \E figures \in SeqsUpTo(EntryFigures, MaxBreakdown) :
        /\ NoRequest
        /\ node_call = <<>>
        /\ shares_call =
               <<[breakdown     |-> [i \in 1..Len(figures) |->
                                        [node_id |-> i, cost |-> figures[i][1],
                                         latency |-> figures[i][2]]],
                  total_cost    |-> SumSeq([i \in 1..Len(figures) |-> figures[i][1]]),
                  total_latency |-> SumSeq([i \in 1..Len(figures) |-> figures[i][2]]),
                  computed      |-> FALSE]>>

\* _compute_bottleneck_shares(breakdown, total_cost, total_latency): the
\* entries are changed in place
ComputeBottleneckShares ==
    /\ shares_call # <<>>
    /\ ~shares_call[1].computed
    /\ shares_call' =
           <<[shares_call[1] EXCEPT
                 !.breakdown = compute_bottleneck_shares(shares_call[1].breakdown,
                                   shares_call[1].total_cost,
                                   shares_call[1].total_latency),
                 !.computed = TRUE]>>
    /\ UNCHANGED <<nodes, edges, pricing_lookup, tool_lookup, response, float_half_up,
                   analyzer, ret, node_call, in_flight, running>>

NextShares == ComputeBottleneckShares

SpecShares == InitShares /\ [][NextShares]_vars

\* --------------------------------------------- the /api/estimate endpoint
\* the optional parameters of a WorkflowRequest: recursion_limit (0: None),
\* runs_per_day (0: None), loop_intensity in tenths (0: None)
RequestParams ==
    { ArgsOf(25, 0, 0), ArgsOf(0, 0, 0), ArgsOf(2, 10, 5), ArgsOf(7, 0, 20),
      ArgsOf(200, 1, 10) }

\* request.recursion_limit or 25
recursion_limit_or_25(recursion_limit) ==
    IF recursion_limit # 0 THEN recursion_limit ELSE 25

\* the keyword arguments estimate() passes on to estimate_workflow: the
\* recursion limit; runs_per_day and loop_intensity keep their defaults (None)
PassedArgs(request) == ArgsOf(recursion_limit_or_25(request.recursion_limit), 0, 0)

\* the engine's arguments that stand for the whole request
EngineArgs(request) ==
    ArgsOf(recursion_limit_or_25(request.recursion_limit), request.runs_per_day,
           request.loop_intensity)

\* estimate(request): the handler of POST /api/estimate
EstimateRequest(request) ==
    /\ response' = Append(response,
                       [request |-> request,
                        args    |-> PassedArgs(request),
                        res     |-> estimate_workflow(nodes, edges, PassedArgs(request),
                                        pricing_lookup, tool_lookup, float_half_up)])
    /\ UNCHANGED <<nodes, edges, pricing_lookup, tool_lookup, float_half_up, analyzer, ret,
                   node_call, shares_call, in_flight, running>>

\* requests whose edges join nodes of the request
InitEndpoint ==
    \E n \in 0..MaxNodes :
        \E es \in SortedEdgeLists(1..n) :
            \E v \in {1, 7} :
                \E up \in HalfUpsOf(NodeList(n, v), es,
                              {PassedArgs(r) : r \in RequestParams}
                                  \cup {EngineArgs(r) : r \in RequestParams}) :
                    InitWith(n, v, es, up)

\* a behaviour is one request
NextEndpoint == Fresh /\ \E request \in RequestParams : EstimateRequest(request)

SpecEndpoint == InitEndpoint /\ [][NextEndpoint]_vars

\* ------------------------------------------- calls of concurrent callers
\* dict.get(key) for each key in keys: the table afterwards
AfterPop(lookup, keys) == [k \in DOMAIN lookup \ keys |-> lookup[k]]

AfterGet(lookup, keys) == lookup

\* the requests of the concurrent callers: the nodes, the edges es and the
\* arguments args.  Several of them look up the same catalog entries; the
\* last is a loop of two agents with the same configuration.
RequestOf(ns, es, args) == [nodes |-> ns, es |-> es, args |-> args]

ConcurrentRequests ==
    { RequestOf(NodeList(2, 1), <<<<1, 2>>, <<2, 1>>>>, ArgsOf(25, 0, 0)),
      RequestOf(NodeList(2, 7), <<<<1, 2>>>>, ArgsOf(2, 10, 5)),
      RequestOf(NodeList(2, 2), <<<<1, 2>>>>, ArgsOf(25, 0, 0)),
      RequestOf(NodeList(1, 1), <<>>, ArgsOf(25, 0, 0)),
      RequestOf(<<NodeConfigs[1], NodeConfigs[1]>>, <<<<1, 2>>, <<2, 1>>>>, ArgsOf(25, 0, 0)) }

\* the catalog keys the estimation of one node looks up
PricingKeysOf(node) ==
    IF node.type = "agentNode" THEN {<<node.model_provider, node.model_name>>} ELSE {}

ToolKeysOf(node, connected_tool_nodes) ==
    IF node.type = "agentNode"
    THEN {connected_tool_nodes[j].node.tool_id : j \in 1..Len(connected_tool_nodes)} \ {""}
    ELSE IF node.type = "toolNode" THEN {node.tool_id} \ {""}
    ELSE {}

\* the list s without its element at position c
RemoveAt(s, c) == [j \in 1..(Len(s) - 1) |-> IF j < c THEN s[j] ELSE s[j + 1]]

\* a caller enters estimate_workflow: the call builds its own GraphAnalyzer
\* and tool connections and asks for the cycle groups and is_cyclic(), all
\* on its own arguments
BeginEstimate ==
    /\ Len(in_flight) + Len(response) < MaxCallers
    /\ \E r \in ConcurrentRequests :
           \E up \in HalfUpsOf(r.nodes, r.es, {r.args}) :
               in_flight' = Append(in_flight,
                   [nodes        |-> r.nodes,
                    edges        |-> r.es,
                    args         |-> r.args,
                    half_up      |-> up,
                    cycle_groups |->
                        cycle_groups_of(AdjOf(r.es),
                            compute_sccs(NodeIdsOf(r.nodes), AdjOf(r.es))),
                    is_cyc       |->
                        is_cyclic(NodeIdsOf(r.nodes), AdjOf(r.es),
                                  AdjKeys(r.es)),
                    breakdown    |-> <<>>,
                    overlapped   |-> FALSE])
    /\ UNCHANGED <<nodes, edges, pricing_lookup, tool_lookup, response, float_half_up,
                   analyzer, ret, node_call, shares_call, running>>

\* call c runs one pass of its per-node loop: the node's estimation reads the
\* two catalogs as they are now
EstimateNextNode(c) ==
    LET call == in_flight[c]
        i == Len(call.breakdown) + 1
        Looked(connected_tool_nodes) ==
            /\ in_flight' =
                   [in_flight EXCEPT
                       ![c].breakdown =
                           Append(call.breakdown,
                               NodeEstimationOf(i, call.nodes[i], connected_tool_nodes,
                                   i \in nodes_in_cycles_of(call.cycle_groups),
                                   pricing_lookup, tool_lookup)),
                       ![c].overlapped =
                           \/ call.overlapped
                           \/ \E o \in 1..Len(in_flight) :
                                  o # c /\ in_flight[o].breakdown # <<>>]
            /\ pricing_lookup' = AfterGet(pricing_lookup, PricingKeysOf(call.nodes[i]))
            /\ tool_lookup' =
                   AfterGet(tool_lookup, ToolKeysOf(call.nodes[i], connected_tool_nodes))
    IN  /\ call.is_cyc.res # "KeyError"
        /\ i <= Len(call.nodes)
        /\ Looked(ConnectedTools(call.nodes,
                      build_tool_connections(call.nodes, call.edges)[i]))
        /\ UNCHANGED <<nodes, edges, response, float_half_up, analyzer, ret, node_call,
                       shares_call, running>>

\* call c finishes: the totals, the shares, the cycle contributions, the
\* paths and the health score from its own breakdown, and the return
ReturnEstimate(c) ==
    LET call == in_flight[c]
    IN  /\ call.is_cyc.res = "KeyError" \/ Len(call.breakdown) = Len(call.nodes)
        /\ response' = Append(response,
               [args       |-> call.args,
                nodes      |-> call.nodes,
                edges      |-> call.edges,
                half_up    |-> call.half_up,
                overlapped |-> call.overlapped,
                res        |->
                    estimate_workflow_from(call.nodes, call.edges, call.args,
                        call.cycle_groups, call.is_cyc, call.breakdown,
                        pricing_lookup, call.half_up)])
        /\ in_flight' = RemoveAt(in_flight, c)
        /\ UNCHANGED <<nodes, edges, pricing_lookup, tool_lookup, float_half_up,
                       analyzer, ret, node_call, shares_call, running>>

InitConcurrent == NoRequest /\ node_call = <<>> /\ shares_call = <<>>

NextConcurrent ==
    \/ BeginEstimate
    \/ \E c \in 1..Len(in_flight) : EstimateNextNode(c)
    \/ \E c \in 1..Len(in_flight) : ReturnEstimate(c)

SpecConcurrent == InitConcurrent /\ [][NextConcurrent]_vars

\* ----------------------------------------- the loops, one iteration a step
\* An operation that is run loop step by loop step is a record of its local
\* variables with, besides, done (it has returned or raised), val (what it
\* returned) and, per id, how often the operation has entered it: visits for
\* the calls of a depth-first search, dequeues for Kahn's loop.
NoVisits == [n \in AllIds |-> 0]

\* the list s without its last element, and with its last element replaced
Front(s) == SubSeq(s, 1, Len(s) - 1)

\* is_cyclic(): calls is the stack of the _dfs calls in progress, each
\* [node, i]: the node and the position of the for loop over self.adj[node];
\* root is the position of the generator over self.node_ids
IsCyclicStart(node_ids) ==
    [op     |-> "is_cyclic",
     color  |-> [n \in Range(node_ids) |-> WHITE],
     calls  |-> <<>>,
     root   |-> 1,
     visits |-> NoVisits,
     done   |-> FALSE,
     val    |-> ""]

\* A faulty variant of the step below: a node whose neighbours are done is
\* painted WHITE again.
IsCyclicStepRepaint(node_ids, adj, fr) ==
    LET top  == fr.calls[Len(fr.calls)]
        Enter(f, node) ==
            [f EXCEPT !.color[node] = GRAY,
                      !.calls = Append(@, [node |-> node, i |-> 1]),
                      !.visits[node] = @ + 1]
    IN  IF fr.calls = <<>>
        THEN IF fr.root > Len(node_ids)
             THEN [fr EXCEPT !.done = TRUE, !.val = "False"]
             ELSE IF fr.color[node_ids[fr.root]] # WHITE
             THEN [fr EXCEPT !.root = @ + 1]
             ELSE Enter([fr EXCEPT !.root = @ + 1], node_ids[fr.root])
        ELSE IF top.i > Len(adj[top.node])
        THEN [fr EXCEPT !.color[top.node] = WHITE, !.calls = Front(@)]
        ELSE LET neighbour == adj[top.node][top.i]
                 next      == [fr EXCEPT !.calls[Len(fr.calls)].i = @ + 1]
             IN  IF neighbour \notin DOMAIN fr.color
                 THEN [fr EXCEPT !.done = TRUE, !.val = "KeyError"]
                 ELSE IF fr.color[neighbour] = GRAY
                 THEN [fr EXCEPT !.done = TRUE, !.val = "True"]
                 ELSE IF fr.color[neighbour] = WHITE
                 THEN Enter(next, neighbour)
                 ELSE next

\* one step of is_cyclic(): the generator moves to the next WHITE node id and
\* calls _dfs on it, or the innermost _dfs call looks at its next neighbour,
\* or, its neighbours done, paints its node BLACK and returns False; a GRAY
\* neighbour ends the whole search with True
IsCyclicStep(node_ids, adj, fr) ==
    LET top  == fr.calls[Len(fr.calls)]
        Enter(f, node) ==
            [f EXCEPT !.color[node] = GRAY,
                      !.calls = Append(@, [node |-> node, i |-> 1]),
                      !.visits[node] = @ + 1]
    IN  IF fr.calls = <<>>
        THEN IF fr.root > Len(node_ids)
             THEN [fr EXCEPT !.done = TRUE, !.val = "False"]
             ELSE IF fr.color[node_ids[fr.root]] # WHITE
             THEN [fr EXCEPT !.root = @ + 1]
             ELSE Enter([fr EXCEPT !.root = @ + 1], node_ids[fr.root])
        ELSE IF top.i > Len(adj[top.node])
        THEN [fr EXCEPT !.color[top.node] = BLACK, !.calls = Front(@)]
        ELSE LET neighbour == adj[top.node][top.i]
                 next      == [fr EXCEPT !.calls[Len(fr.calls)].i = @ + 1]
             IN  IF neighbour \notin DOMAIN fr.color
                 THEN [fr EXCEPT !.done = TRUE, !.val = "KeyError"]
                 ELSE IF fr.color[neighbour] = GRAY
                 THEN [fr EXCEPT !.done = TRUE, !.val = "True"]
                 ELSE IF fr.color[neighbour] = WHITE
                 THEN Enter(next, neighbour)
                 ELSE next

\* topological_order(): the locals before the while loop
KahnStart(in_degree) ==
    [op       |-> "topological_order",
     in_deg   |-> in_degree.deg,
     queue    |-> SelectSeq(in_degree.keys, LAMBDA k : in_degree.deg[k] = 0),
     order    |-> <<>>,
     dequeues |-> NoVisits,
     done     |-> FALSE,
     val      |-> <<>>]

\* one iteration of while queue, or the return after it
KahnStep(node_ids, adj, fr) ==
    IF fr.queue = <<>>
    THEN [fr EXCEPT !.done = TRUE,
                    !.val = IF Len(fr.order) = Len(node_ids) THEN fr.order ELSE <<>>]
    ELSE LET node == Head(fr.queue)
             r    == KahnNeighbours(adj[node], 1, fr.in_deg, Tail(fr.queue))
         IN  [fr EXCEPT !.in_deg = r.in_deg,
                        !.queue = r.queue,
                        !.order = Append(@, node),
                        !.dequeues[node] = @ + 1]

\* weighted_critical_path(latency_map) up to the backtracking loop: on a
\* cyclic graph it has returned the node ids, and it may have raised
BacktrackStart(node_ids, adj, keys, in_degree, latency_map) ==
    LET r == weighted_critical_path(node_ids, adj, keys, in_degree, latency_map)
    IN  [op          |-> "weighted_critical_path",
         latency_map |-> latency_map,
         parent      |-> r.parent,
         current     |-> r.end_node,
         path        |-> IF r.end_node = NoParent THEN <<>> ELSE <<r.end_node>>,
         done        |-> r.end_node = NoParent,
         val         |-> [err |-> r.err,
                          path |-> IF r.end_node = NoParent THEN r.path ELSE <<>>]]

\* one iteration of while parent[current] is not None, or the return after it
BacktrackStep(fr) ==
    IF fr.parent[fr.current] = NoParent
    THEN [fr EXCEPT !.done = TRUE, !.val = [err |-> FALSE, path |-> Reverse(fr.path)]]
    ELSE [fr EXCEPT !.current = fr.parent[fr.current],
                    !.path = Append(@, fr.parent[fr.current])]

\* _compute_sccs(): st is the record of strongconnect above, calls the stack
\* of the strongconnect calls in progress, each [v, i]
SccsStart ==
    [op     |-> "sccs",
     st     |-> [counter  |-> 0,
                 stack    |-> <<>>,
                 on_stack |-> {},
                 lowlink  |-> <<>>,
                 index    |-> <<>>,
                 result   |-> <<>>],
     calls  |-> <<>>,
     root   |-> 1,
     visits |-> NoVisits,
     done   |-> FALSE,
     val    |-> <<>>]

\* one step of _compute_sccs(): the loop over self.node_ids moves to the next
\* id without index and calls strongconnect on it, or the innermost
\* strongconnect call looks at its next neighbour, or, its neighbours done,
\* pops its component if it is a root and returns: the caller then lowers its
\* lowlink and moves on
SccsStep(node_ids, adj, fr) ==
    LET depth == Len(fr.calls)
        top   == fr.calls[depth]
        Enter(f, v) ==
            [f EXCEPT !.st.index    = (v :> f.st.counter) @@ @,
                      !.st.lowlink  = (v :> f.st.counter) @@ @,
                      !.st.counter  = @ + 1,
                      !.st.stack    = Append(@, v),
                      !.st.on_stack = @ \cup {v},
                      !.calls       = Append(@, [v |-> v, i |-> 1]),
                      !.visits[v]   = @ + 1]
        \* lowlink[v] == index[v]: the pop loop
        Popped(f, v) ==
            IF f.st.lowlink[v] = f.st.index[v]
            THEN LET p == PopComponent(v, f.st.stack, f.st.on_stack, <<>>)
                 IN  [f EXCEPT !.st.stack    = p.stack,
                               !.st.on_stack = p.on_stack,
                               !.st.result   = Append(@, p.component)]
            ELSE f
        \* strongconnect(w) returns into the caller's for loop
        Back(f, w) ==
            IF depth = 1 THEN [f EXCEPT !.calls = <<>>]
            ELSE LET v == f.calls[depth - 1].v
                 IN  [f EXCEPT !.calls = Front(@),
                               !.calls[depth - 1].i = @ + 1,
                               !.st.lowlink[v] = Min2(@, f.st.lowlink[w])]
    IN  IF fr.calls = <<>>
        THEN IF fr.root > Len(node_ids)
             THEN [fr EXCEPT !.done = TRUE, !.val = fr.st.result]
             ELSE IF node_ids[fr.root] \in DOMAIN fr.st.index
             THEN [fr EXCEPT !.root = @ + 1]
             ELSE Enter([fr EXCEPT !.root = @ + 1], node_ids[fr.root])
        ELSE IF top.i > Len(adj[top.v])
        THEN Back(Popped(fr, top.v), top.v)
        ELSE LET w == adj[top.v][top.i] IN
             IF w \notin DOMAIN fr.st.index
             THEN Enter(fr, w)
             ELSE IF w \in fr.st.on_stack
             THEN [fr EXCEPT !.calls[depth].i = @ + 1,
                             !.st.lowlink[top.v] = Min2(@, fr.st.index[w])]
             ELSE [fr EXCEPT !.calls[depth].i = @ + 1]

\* _find_back_edges_in_subgraph(scc, scc_set): calls is the stack of the
\* _dfs calls in progress, root the position of the loop over scc
BackEdgesStart(scc) ==
    [op         |-> "_find_back_edges_in_subgraph",
     scc        |-> scc,
     color      |-> [n \in Range(scc) |-> WHITE],
     back_edges |-> <<>>,
     calls      |-> <<>>,
     root       |-> 1,
     visits     |-> NoVisits,
     done       |-> FALSE,
     val        |-> <<>>]

\* one step of _find_back_edges_in_subgraph: the loop over scc moves to the
\* next WHITE node and calls _dfs on it, or the innermost _dfs call looks at
\* its next neighbour, or, its neighbours done, paints its node BLACK and
\* returns
BackEdgesStep(adj, fr) ==
    LET depth == Len(fr.calls)
        top   == fr.calls[depth]
        Enter(f, node) ==
            [f EXCEPT !.color[node] = GRAY,
                      !.calls = Append(@, [node |-> node, i |-> 1]),
                      !.visits[node] = @ + 1]
    IN  IF fr.calls = <<>>
        THEN IF fr.root > Len(fr.scc)
             THEN [fr EXCEPT !.done = TRUE, !.val = fr.back_edges]
             ELSE IF fr.color[fr.scc[fr.root]] # WHITE
             THEN [fr EXCEPT !.root = @ + 1]
             ELSE Enter([fr EXCEPT !.root = @ + 1], fr.scc[fr.root])
        ELSE IF top.i > Len(adj[top.node])
        THEN [fr EXCEPT !.color[top.node] = BLACK, !.calls = Front(@)]
        ELSE LET neighbour == adj[top.node][top.i]
                 next      == [fr EXCEPT !.calls[depth].i = @ + 1]
             IN  IF neighbour \notin Range(fr.scc)
                 THEN next
                 ELSE IF fr.color[neighbour] = GRAY
                 THEN [next EXCEPT !.back_edges = Append(@, <<top.node, neighbour>>)]
                 ELSE IF fr.color[neighbour] = WHITE
                 THEN Enter(next, neighbour)
                 ELSE next

\* estimate_workflow(nodes, edges, args) up to its per-node loop: the analyzer
\* has answered get_nodes_in_cycles() and is_cyclic(), which may have raised.
\* estimations holds what the passes of the per-node loop compute, cycles the
\* CycleInfo list (both are functions of the request and of the catalogs,
\* which no step changes); steps counts the loop iterations and the return;
\* tokens_max is the local cycle_tokens_max.
EstimateStart(ns, es, args, pricing, tools) ==
    LET node_ids == NodeIdsOf(ns)
        Analyzed(groups, is_cyc) ==
            [op           |-> "estimate_workflow",
             args         |-> args,
             estimations  |-> BreakdownOf(ns, build_tool_connections(ns, es),
                                  nodes_in_cycles_of(groups), pricing, tools),
             cycles       |->
                 IF is_cyc.res = "True"
                 THEN DetectedCyclesOf(ns, groups, args.recursion_limit,
                          IF args.loop_intensity # 0 THEN args.loop_intensity ELSE 10)
                 ELSE <<>>,
             breakdown    |-> <<>>,
             cycle        |-> 0,
             tokens_max   |-> 0,
             steps        |-> IF is_cyc.res = "KeyError" THEN 1 ELSE 0,
             done         |-> is_cyc.res = "KeyError",
             raised       |-> is_cyc.res = "KeyError"]
    IN  Analyzed(cycle_groups_of(AdjOf(es), compute_sccs(node_ids, AdjOf(es))),
                 is_cyclic(node_ids, AdjOf(es), AdjKeys(es)))

\* one step of estimate_workflow: one pass of the per-node loop, then one
\* pass of the loop over detected_cycles that adds a cycle's laps to the
\* ranges (the lap is multiplied by the iteration count), then the rest and
\* the return
EstimateStep(fr) ==
    LET i == Len(fr.breakdown) + 1
    IN  IF i <= Len(fr.estimations)
        THEN [fr EXCEPT !.breakdown = Append(@, fr.estimations[i]),
                        !.steps = @ + 1]
        ELSE IF fr.cycle < Len(fr.cycles)
        THEN [fr EXCEPT !.cycle = @ + 1,
                        !.tokens_max = @ + fr.cycles[fr.cycle + 1].max_iterations
                            * SumOver(fr.breakdown,
                                  LAMBDA b : b.node_id
                                                 \in Range(fr.cycles[fr.cycle + 1].node_ids),
                                  LAMBDA b : b.tokens),
                        !.steps = @ + 1]
        ELSE [fr EXCEPT !.done = TRUE, !.steps = @ + 1]

\* an operation starts on the analyzer as constructed, or on the request
StartRun(fr) ==
    /\ running = <<>>
    /\ response = <<>>
    /\ ret = <<>>
    /\ running' = <<fr>>
    /\ UNCHANGED <<nodes, edges, pricing_lookup, tool_lookup, response, float_half_up,
                   analyzer, ret, node_call, shares_call, in_flight>>

\* the operation op takes its next step
RunStep(op, next) ==
    /\ running # <<>>
    /\ running[1].op = op
    /\ ~running[1].done
    /\ running' = <<next>>
    /\ UNCHANGED <<nodes, edges, pricing_lookup, tool_lookup, response, float_half_up,
                   analyzer, ret, node_call, shares_call, in_flight>>

\* the arguments of the calls that are run step by step: the smallest and
\* the largest recursion limit
StepArgs == {ArgsOf(1, 0, 0), ArgsOf(200, 1, 50)}

StartIsCyclic == StartRun(IsCyclicStart(NodeIdsOf(nodes)))

StepIsCyclic == RunStep("is_cyclic", IsCyclicStep(NodeIdsOf(nodes), Adj, running[1]))

StartTopologicalOrder == StartRun(KahnStart(InDegree))

StepTopologicalOrder ==
    RunStep("topological_order", KahnStep(NodeIdsOf(nodes), Adj, running[1]))

StartWeightedCriticalPath(latency_map) ==
    StartRun(BacktrackStart(NodeIdsOf(nodes), Adj, analyzer.adj_keys, InDegree, latency_map))

StepWeightedCriticalPath == RunStep("weighted_critical_path", BacktrackStep(running[1]))

StartSccs == StartRun(SccsStart)

StepSccs == RunStep("sccs", SccsStep(NodeIdsOf(nodes), Adj, running[1]))

\* get_cycle_groups() calls _find_back_edges_in_subgraph on a component of
\* two or more nodes
StartFindBackEdges ==
    \E scc \in Range(compute_sccs(NodeIdsOf(nodes), Adj)) :
        Len(scc) >= 2 /\ StartRun(BackEdgesStart(scc))

StepFindBackEdges == RunStep("_find_back_edges_in_subgraph", BackEdgesStep(Adj, running[1]))

StartEstimate(args) ==
    StartRun(EstimateStart(nodes, edges, args, pricing_lookup, tool_lookup))

StepEstimate == RunStep("estimate_workflow", EstimateStep(running[1]))

InitSteps ==
    \E n \in 0..MaxNodes :
        \E es \in AnalyzerEdgeLists(1..n) :
            \E up \in HalfUpsOf(NodeList(n, 1), es, StepArgs) : InitWith(n, 1, es, up)

\* the next loop step of the operation that is running
Step ==
    \/ StepIsCyclic
    \/ StepTopologicalOrder
    \/ StepWeightedCriticalPath
    \/ StepSccs
    \/ StepFindBackEdges
    \/ StepEstimate

NextSteps ==
    \/ StartIsCyclic
    \/ StartTopologicalOrder
    \/ \E latency_map \in QueryLatencyMaps : StartWeightedCriticalPath(latency_map)
    \/ StartSccs
    \/ StartFindBackEdges
    \/ \E args \in StepArgs : StartEstimate(args)
    \/ Step

\* an operation that has started keeps running: the interpreter takes the
\* next step of a call that has not returned
SpecSteps == InitSteps /\ [][NextSteps]_vars /\ WF_vars(Step)

\* =============================================================== the claims
\* the ids of the request's nodes
NodeIdSet == 1..Len(nodes)

\* the last query on the analyzer was op
Asked(op) == ret # <<>> /\ ret[1].op = op

\* the i-th call returned a WorkflowEstimation
Returned(i) == i \in 1..Len(response) /\ ~response[i].res.raised

\* the pairs joined by a path of one or more of the edges in R
RECURSIVE PathsUpTo(_, _)
PathsUpTo(R, k) ==
    IF k = 0 THEN R
    ELSE PathsUpTo(R \cup {<<a, c>> \in AllIds \X AllIds :
                              \E b \in AllIds : <<a, b>> \in R /\ <<b, c>> \in R},
                   k - 1)

HasDirectedCycle == \E a \in AllIds : <<a, a>> \in PathsUpTo(Range(edges), MaxNodes)

WellFormed == Range(edges) \subseteq NodeIdSet \X NodeIdSet

\* C1: on a graph without a directed cycle whose edges all join node ids,
\* topological_order() returns a list that holds every node id exactly once
\* and in which the source of every edge comes strictly before its target.
C1_TopologicalOrder ==
    (Asked("topological_order") /\ WellFormed /\ ~HasDirectedCycle) =>
        LET order == ret[1].val
        IN  /\ Len(order) = Len(nodes)
            /\ \A id \in NodeIdSet :
                   Cardinality({i \in 1..Len(order) : order[i] = id}) = 1
            /\ \A k \in 1..Len(edges) :
                   IndexOf(order, edges[k][1]) < IndexOf(order, edges[k][2])

\* C1's case: an acyclic graph of three nodes with a repeated edge, an edge
\* from a later node to an earlier one and a node that no edge touches, asked
\* for its topological order.
C1_Witness ==
    /\ Asked("topological_order")
    /\ WellFormed /\ ~HasDirectedCycle
    /\ Len(nodes) = 3
    /\ \E i, j \in 1..Len(edges) : i < j /\ edges[i] = edges[j]
    /\ \E k \in 1..Len(edges) : edges[k][1] > edges[k][2]
    /\ \E id \in NodeIdSet : \A k \in 1..Len(edges) : id # edges[k][1] /\ id # edges[k][2]
    /\ Len(ret[1].val) = 3

\* C2: for any graph, the components returned by sccs partition the node-id
\* list exactly: every node id is in exactly one component and no component
\* holds an id that is not a node id.
C2_SccsPartition ==
    Asked("sccs") =>
        LET comps == ret[1].val
        IN  /\ \A id \in NodeIdSet :
                   Cardinality({c \in 1..Len(comps) : Contains(comps[c], id)}) = 1
            /\ \A c \in 1..Len(comps) :
                   /\ Range(comps[c]) \subseteq NodeIdSet
                   /\ \A i, j \in 1..Len(comps[c]) : i # j => comps[c][i] # comps[c][j]

\* C3: whenever estimate_workflow returns the three ranges, each of them has
\* min <= avg <= max.
C3_RangesOrdered ==
    \A i \in 1..Len(response) :
        (Returned(i) /\ response[i].res.token_range # <<>>) =>
            \A r \in {response[i].res.token_range[1],
                      response[i].res.cost_range[1],
                      response[i].res.latency_range[1]} :
                r.min <= r.avg /\ r.avg <= r.max

\* C3's case: a call that returned ranges whose three values differ, for each
\* of the three metrics, under a loop intensity other than the default.
C3_Witness ==
    \E i \in 1..Len(response) :
        /\ Returned(i)
        /\ response[i].res.token_range # <<>>
        /\ response[i].args.loop_intensity = 50
        /\ \A r \in {response[i].res.token_range[1],
                     response[i].res.cost_range[1],
                     response[i].res.latency_range[1]} :
               r.min < r.avg /\ r.avg < r.max

\* C4: every CycleInfo has 1 <= expected_iterations <= max_iterations and
\* expected_iterations = max(1, ceil(max_iterations / 2)).
C4_ExpectedIterations ==
    \A i \in 1..Len(response) :
        Returned(i) =>
            \A c \in 1..Len(response[i].res.detected_cycles) :
                LET ci == response[i].res.detected_cycles[c]
                IN  /\ 1 <= ci.expected_iterations
                    /\ ci.expected_iterations <= ci.max_iterations
                    /\ ci.expected_iterations = Max2(1, (ci.max_iterations + 1) \div 2)

\* C4's case: a returned CycleInfo with an odd max_iterations above 1, where
\* the half is rounded up.
C4_Witness ==
    \E i \in 1..Len(response) :
        /\ Returned(i)
        /\ \E c \in 1..Len(response[i].res.detected_cycles) :
               /\ response[i].res.detected_cycles[c].max_iterations = 3
               /\ response[i].res.detected_cycles[c].expected_iterations = 2

\* the avg case of one metric f of the i-th call: the single-lap sum over the
\* nodes outside every cycle group plus, for each cycle group, the group's
\* per-lap sum times the group's expected_iterations
AvgCase(i, f(_)) ==
    LET res == response[i].res
        grouped == UNION {Range(res.detected_cycles[c].node_ids) :
                             c \in 1..Len(res.detected_cycles)}
    IN  SumSeq([k \in 1..Len(res.breakdown) |->
                   IF res.breakdown[k].node_id \in grouped THEN 0
                   ELSE f(res.breakdown[k])])
        + SumSeq([c \in 1..Len(res.detected_cycles) |->
                     res.detected_cycles[c].expected_iterations
                     * SumSeq([k \in 1..Len(res.breakdown) |->
                                  IF res.breakdown[k].node_id
                                         \in Range(res.detected_cycles[c].node_ids)
                                  THEN f(res.breakdown[k]) ELSE 0])])

\* C5, as stated: on a graph with at least one cycle group the headline
\* total_tokens, total_cost and total_latency equal the avg case.
C5_HeadlineTotalsExact ==
    \A i \in 1..Len(response) :
        (Returned(i) /\ response[i].res.detected_cycles # <<>>) =>
            /\ response[i].res.total_tokens = AvgCase(i, LAMBDA b : b.tokens)
            /\ response[i].res.total_cost = AvgCase(i, LAMBDA b : b.cost)
            /\ response[i].res.total_latency = AvgCase(i, LAMBDA b : b.latency)

\* C5, amended: on a graph with at least one cycle group, total_tokens and
\* total_latency equal the avg case, and total_cost is the avg case rounded
\* to 6 decimal places: a multiple of 1e-6 dollars at most half of 1e-6 away
\* from it, and the value of cost_range.avg (costs are in 1e-8 dollars here).
C5_HeadlineTotalsRounded ==
    \A i \in 1..Len(response) :
        (Returned(i) /\ response[i].res.detected_cycles # <<>>) =>
            /\ response[i].res.total_tokens = AvgCase(i, LAMBDA b : b.tokens)
            /\ response[i].res.total_cost % 100 = 0
            /\ 2 * response[i].res.total_cost <= 2 * AvgCase(i, LAMBDA b : b.cost) + 100
            /\ 2 * response[i].res.total_cost >= 2 * AvgCase(i, LAMBDA b : b.cost) - 100
            /\ response[i].res.total_cost = response[i].res.cost_range[1].avg
            /\ response[i].res.total_latency = AvgCase(i, LAMBDA b : b.latency)

\* C5's case: a call on a graph with a cycle group that runs more than one
\* expected lap, with a priced node outside the group, where the avg-case
\* cost has a seventh or eighth decimal.
C5_Witness ==
    \E i \in 1..Len(response) :
        /\ Returned(i)
        /\ \E c \in 1..Len(response[i].res.detected_cycles) :
               response[i].res.detected_cycles[c].expected_iterations > 1
        /\ \E k \in 1..Len(response[i].res.breakdown) :
               /\ ~response[i].res.breakdown[k].in_cycle
               /\ response[i].res.breakdown[k].cost > 0
        /\ AvgCase(i, LAMBDA b : b.cost) % 100 # 0
        /\ response[i].res.total_cost # AvgCase(i, LAMBDA b : b.cost)

\* the edges of the request whose source and target are node ids
KnownEdges == SelectSeq(edges, LAMBDA e : e[1] \in NodeIdSet /\ e[2] \in NodeIdSet)

\* C6: on a graph with edges whose source or target is not a node id,
\* estimate_workflow returns, and returns the graph_type, cycles, critical
\* path, parallel steps and totals it returns for the graph without them.
C6_UnknownEdgesIgnored ==
    \A i \in 1..Len(response) :
        ~WellFormed =>
        LET got  == response[i].res
            want == estimate_workflow(nodes, KnownEdges, response[i].args,
                                      pricing_lookup, tool_lookup, float_half_up)
        IN  /\ ~got.raised
            /\ ~want.raised
            /\ got.graph_type = want.graph_type
            /\ got.detected_cycles = want.detected_cycles
            /\ got.critical_path = want.critical_path
            /\ got.parallel_steps = want.parallel_steps
            /\ got.total_tokens = want.total_tokens
            /\ got.total_cost = want.total_cost
            /\ got.total_latency = want.total_latency

\* C7: two calls of estimate_workflow with the same arguments on the same
\* request and catalogs return identical results, whatever calls were made
\* between them.
C7_Deterministic ==
    \A i, j \in 1..Len(response) :
        response[i].args = response[j].args => response[i].res = response[j].res

\* C7's case: three calls, the first and the third with the same arguments,
\* the second with other arguments and another result.
C7_Witness ==
    /\ Len(response) = 3
    /\ Returned(1) /\ Returned(2) /\ Returned(3)
    /\ response[1].args = response[3].args
    /\ response[2].args # response[1].args
    /\ response[2].res.total_cost # response[1].res.total_cost
    /\ response[1].res.total_cost > 0

\* C8: for any graph, the node ids of the cycle groups together with the ids
\* returned by get_nodes_outside_cycles() cover the node set exactly, without
\* overlap; no node id is in two cycle groups; and a node's in_cycle flag in
\* the breakdown is true exactly when the node is in some cycle group.
C8_CycleGroupsPartition ==
    /\ Asked("get_nodes_outside_cycles") =>
           LET groups  == analyzer._cycle_groups[1]
               grouped == UNION {Range(groups[g].node_ids) : g \in 1..Len(groups)}
               outside == ret[1].val
           IN  /\ grouped \cup Range(outside) = NodeIdSet
               /\ grouped \cap Range(outside) = {}
               /\ \A g, h \in 1..Len(groups) :
                      g # h => Range(groups[g].node_ids) \cap Range(groups[h].node_ids) = {}
    /\ \A i \in 1..Len(response) :
           Returned(i) =>
               LET groups  == cycle_groups_of(Adj, compute_sccs(NodeIdsOf(nodes), Adj))
                   grouped == UNION {Range(groups[g].node_ids) : g \in 1..Len(groups)}
               IN  \A k \in 1..Len(response[i].res.breakdown) :
                       response[i].res.breakdown[k].in_cycle
                           <=> response[i].res.breakdown[k].node_id \in grouped

\* C9: every node id in the result of estimate_workflow (breakdown,
\* critical_path, parallel_steps, the node_ids and back_edges of
\* detected_cycles) is the id of a node of the request.
C9_ResultIdsAreNodeIds ==
    \A i \in 1..Len(response) :
        Returned(i) =>
            LET res == response[i].res
            IN  /\ \A k \in 1..Len(res.breakdown) : res.breakdown[k].node_id \in NodeIdSet
                /\ Range(res.critical_path) \subseteq NodeIdSet
                /\ \A k \in 1..Len(res.parallel_steps) :
                       Range(res.parallel_steps[k].node_ids) \subseteq NodeIdSet
                /\ \A c \in 1..Len(res.detected_cycles) :
                       /\ Range(res.detected_cycles[c].node_ids) \subseteq NodeIdSet
                       /\ \A e \in Range(res.detected_cycles[c].back_edges) :
                              e[1] \in NodeIdSet /\ e[2] \in NodeIdSet

\* the cap of a cycle group: the least max_steps over the group's agent
\* nodes that configure one, the default cap when none does
GroupCap(group_node_ids) ==
    LET caps == {nodes[id].max_steps :
                    id \in {x \in Range(group_node_ids) \cap NodeIdSet :
                               nodes[x].type = "agentNode" /\ nodes[x].max_steps # 0}}
    IN  IF caps = {} THEN _DEFAULT_MAX_STEPS
        ELSE CHOOSE m \in caps : \A c \in caps : m <= c

\* C10: for each cycle group, under loop intensity 1.0 (the default),
\* max_iterations = min(m, recursion_limit), m being the group's cap (caps of
\* non-agent nodes and of nodes outside the group do not count); and under
\* any loop intensity 1 <= max_iterations <= recursion_limit.
C10_MaxIterations ==
    \A i \in 1..Len(response) :
        Returned(i) =>
            \A c \in 1..Len(response[i].res.detected_cycles) :
                LET ci == response[i].res.detected_cycles[c]
                    rl == response[i].args.recursion_limit
                IN  /\ response[i].args.loop_intensity \in {0, 10} =>
                           ci.max_iterations = Min2(GroupCap(ci.node_ids), rl)
                    /\ 1 <= ci.max_iterations
                    /\ ci.max_iterations <= rl

\* C10's case: under the default loop intensity, a cycle group of an agent
\* node with cap 6 and a tool node with cap 2, an agent node with cap 3
\* outside the group, and max_iterations 6.
C10_Witness ==
    \E i \in 1..Len(response) :
        /\ Returned(i)
        /\ response[i].args.loop_intensity = 0
        /\ \E c \in 1..Len(response[i].res.detected_cycles) :
               LET ci == response[i].res.detected_cycles[c]
               IN  /\ ci.max_iterations = 6
                   /\ \E id \in Range(ci.node_ids) :
                          nodes[id].type = "toolNode" /\ nodes[id].max_steps = 2
                   /\ \E id \in NodeIdSet \ Range(ci.node_ids) :
                          nodes[id].type = "agentNode" /\ nodes[id].max_steps = 3

\* the node id's model is priced by the catalog at or above the
\* expensive-model threshold
UsesExpensiveModel(id) ==
    /\ id \in NodeIdSet
    /\ nodes[id].type = "agentNode"
    /\ <<nodes[id].model_provider, nodes[id].model_name>> \in DOMAIN pricing_lookup
    /\ pricing_lookup[<<nodes[id].model_provider, nodes[id].model_name>>].input_per_million
           >= _HIGH_COST_MODEL_THRESHOLD

KnownEdgeSet == Range(edges) \cap (NodeIdSet \X NodeIdSet)

IsAcyclicGraph ==
    ~\E a \in NodeIdSet : <<a, a>> \in PathsUpTo(KnownEdgeSet, MaxNodes)

\* the directed paths of the graph: the non-empty node sequences whose
\* consecutive pairs are edges
IsDirectedPath(p) ==
    /\ p # <<>>
    /\ \A k \in 1..(Len(p) - 1) : <<p[k], p[k + 1]>> \in KnownEdgeSet

DirectedPaths == {p \in SeqsUpTo(NodeIdSet, Len(nodes)) : IsDirectedPath(p)}

\* the sum of the single-lap latencies of the i-th result along p
PathLatency(i, p) ==
    SumSeq([k \in 1..Len(p) |-> response[i].res.breakdown[p[k]].latency])

\* C12: on an acyclic graph (with at least one node) weighted_critical_path
\* returns a directed path (each consecutive pair an edge) from a node
\* without incoming edge to a node without outgoing edge, whose latency sum,
\* critical_path_latency, is the maximum over all directed paths; without
\* edges it is a single node and critical_path_latency the largest node
\* latency.
C12_CriticalPath ==
    \A i \in 1..Len(response) :
        (IsAcyclicGraph /\ nodes # <<>>) =>
            /\ Returned(i)
            /\ LET path == response[i].res.critical_path
               IN  /\ path \in DirectedPaths
                   /\ ~\E e \in KnownEdgeSet : e[2] = path[1]
                   /\ ~\E e \in KnownEdgeSet : e[1] = path[Len(path)]
                   /\ response[i].res.critical_path_latency = PathLatency(i, path)
                   /\ \A p \in DirectedPaths :
                          PathLatency(i, p) <= response[i].res.critical_path_latency
                   /\ KnownEdgeSet = {} => Len(path) = 1

\* C13: on a graph with a directed cycle no call fails, the critical path is
\* the node-id list in input order, critical_path_latency the sum of the
\* single-lap latencies of all nodes, and the parallel steps are one level
\* that holds all node ids.
C13_CyclicFallback ==
    \A i \in 1..Len(response) :
        ~IsAcyclicGraph =>
            /\ Returned(i)
            /\ response[i].res.critical_path = NodeIdsOf(nodes)
            /\ response[i].res.critical_path_latency = PathLatency(i, NodeIdsOf(nodes))
            /\ Len(response[i].res.parallel_steps) = 1
            /\ response[i].res.parallel_steps[1].node_ids = NodeIdsOf(nodes)

\* the level of node id in the parallel steps of the i-th result: the set of
\* steps (from 0) that list it
LevelsOf(i, id) ==
    {k - 1 : k \in {j \in 1..Len(response[i].res.parallel_steps) :
                       Contains(response[i].res.parallel_steps[j].node_ids, id)}}

\* C14: on an acyclic graph compute_parallel_steps (the node_ids of the
\* result's parallel_steps) puts every node in exactly one level, level 0 for
\* a node without predecessor and one more than the highest level of its
\* predecessors otherwise, and returns no empty level.
C14_ParallelLevels ==
    \A i \in 1..Len(response) :
        (IsAcyclicGraph /\ nodes # <<>>) =>
            /\ Returned(i)
            /\ \A id \in NodeIdSet :
                   LET preds == {e[1] : e \in {f \in KnownEdgeSet : f[2] = id}}
                   IN  /\ Cardinality(LevelsOf(i, id)) = 1
                       /\ \A k \in 1..Len(response[i].res.parallel_steps) :
                              Cardinality({j \in 1..Len(response[i].res.parallel_steps[k].node_ids) :
                                  response[i].res.parallel_steps[k].node_ids[j] = id}) <= 1
                       /\ preds = {} => LevelsOf(i, id) = {0}
                       /\ preds # {} =>
                              \E p \in preds :
                                  /\ LevelsOf(i, id) = {l + 1 : l \in LevelsOf(i, p)}
                                  /\ \A q \in preds : \A l \in LevelsOf(i, q) :
                                         l + 1 \in 0..(CHOOSE m \in LevelsOf(i, id) : TRUE)
            /\ \A k \in 1..Len(response[i].res.parallel_steps) :
                   response[i].res.parallel_steps[k].node_ids # <<>>

\* the tool nodes joined to agent a by at least one edge, in either direction
JoinedTools(a) ==
    {t \in NodeIdSet : /\ nodes[t].type = "toolNode"
                       /\ (<<a, t>> \in Range(edges) \/ <<t, a>> \in Range(edges))}

\* the catalog's figures for tool node t, the defaults when its tool id is
\* not in the catalog
ToolFigures(t) ==
    IF nodes[t].tool_id \in DOMAIN tool_lookup THEN tool_lookup[nodes[t].tool_id]
    ELSE [schema_tokens       |-> _DEFAULT_TOOL_SCHEMA_TOKENS,
          avg_response_tokens |-> _DEFAULT_TOOL_RESPONSE_TOKENS,
          latency_ms          |-> _DEFAULT_TOOL_LATENCY_MS]

\* the sum of f over the tool nodes in T, each counted once
RECURSIVE SumOfTools(_, _)
SumOfTools(T, field) ==
    IF T = {} THEN 0
    ELSE LET t == CHOOSE x \in T : TRUE
         IN  ToolFigures(t)[field] + SumOfTools(T \ {t}, field)

\* C15: an agent node is charged for a tool node exactly when an edge joins
\* the two, in either direction, and once however many edges join them: its
\* input tokens and latency exceed those of the same agent without tools by
\* the tools' schema and response tokens and execution latencies, per call of
\* its calls-per-run.  Nodes that are not agents are charged nothing.
C15_ToolCharges ==
    \A i \in 1..Len(response) :
        Returned(i) =>
            \A a \in NodeIdSet :
                LET b == response[i].res.breakdown[a]
                    calls == Max2(1, nodes[a].expected_calls_per_run)
                    bare == estimate_agent_node(a, nodes[a], <<>>, b.in_cycle,
                                                pricing_lookup, tool_lookup)
                IN  IF nodes[a].type = "agentNode"
                    THEN /\ Len(b.tool_impacts) = Cardinality(JoinedTools(a))
                         /\ {b.tool_impacts[k].tool_node_id :
                                k \in 1..Len(b.tool_impacts)} = JoinedTools(a)
                         /\ b.input_tokens = bare.input_tokens
                                + calls * (SumOfTools(JoinedTools(a), "schema_tokens")
                                           + SumOfTools(JoinedTools(a), "avg_response_tokens"))
                         /\ b.latency = bare.latency
                                + calls * SumOfTools(JoinedTools(a), "latency_ms")
                         /\ b.output_tokens = bare.output_tokens
                    ELSE /\ b.tool_impacts = <<>>
                         /\ b.tokens = 0
                         /\ b.tool_schema_tokens = 0

\* C15's case: an agent and a catalog tool joined by an edge in each
\* direction, the tool charged once, and an edge from that agent to a second
\* agent that is charged nothing.
C15_Witness ==
    \E i \in 1..Len(response) :
        /\ Returned(i)
        /\ \E a, t, c \in NodeIdSet :
               /\ nodes[a].type = "agentNode" /\ nodes[c].type = "agentNode" /\ a # c
               /\ nodes[t].tool_id = "search"
               /\ {<<a, t>>, <<t, a>>, <<a, c>>} \subseteq Range(edges)
               /\ Len(response[i].res.breakdown[a].tool_impacts) = 1
               /\ response[i].res.breakdown[a].tool_schema_tokens = 150
               /\ response[i].res.breakdown[c].tool_impacts = <<>>

\* C16: the estimation of a tool node has no tokens and no cost, and its
\* latency is the catalog's execution latency for its tool id, 200 ms when
\* the tool id is unset or not in the catalog.
C16_ToolNode ==
    \A k \in 1..Len(node_call) :
        (node_call[k].node.type = "toolNode" /\ node_call[k].res # <<>>) =>
            LET e == node_call[k].res[1]
                tool_id == node_call[k].node.tool_id
            IN  /\ e.tokens = 0 /\ e.input_tokens = 0 /\ e.output_tokens = 0
                /\ e.cost = 0 /\ e.input_cost = 0 /\ e.output_cost = 0
                /\ e.latency = IF tool_id \in DOMAIN tool_lookup
                               THEN tool_lookup[tool_id].latency_ms
                               ELSE 200

\* C16's case: a tool node without tool id, estimated at the default latency.
C16_Witness ==
    /\ node_call # <<>>
    /\ node_call[1].node.type = "toolNode"
    /\ node_call[1].node.tool_id = ""
    /\ node_call[1].res # <<>>
    /\ node_call[1].res[1].latency = 200

\* C17: an agent node whose (provider, model) pair is unset or not in the
\* pricing catalog is estimated without cost (cost, input_cost and
\* output_cost are 0) and with the token counts of the same node (context,
\* tools, calls-per-run) under a priced model.
C17_UnpricedAgent ==
    \A k \in 1..Len(node_call) :
        LET c == node_call[k]
        IN  (/\ c.node.type = "agentNode"
             /\ <<c.node.model_provider, c.node.model_name>> \notin DOMAIN pricing_lookup
             /\ c.res # <<>>) =>
                LET e == c.res[1]
                    priced == estimate_agent_node(1,
                                  [c.node EXCEPT !.model_provider = "OpenAI",
                                                 !.model_name = "mini"],
                                  c.connected_tool_nodes, c.in_cycle,
                                  pricing_lookup, tool_lookup)
                IN  /\ e.cost = 0 /\ e.input_cost = 0 /\ e.output_cost = 0
                    /\ priced.cost > 0
                    /\ e.input_tokens = priced.input_tokens
                    /\ e.output_tokens = priced.output_tokens
                    /\ e.tokens = priced.tokens

\* C17's case: an agent node without provider and model, with a connected
\* catalog tool and two calls per run, estimated with tokens and without cost.
C17_Witness ==
    /\ node_call # <<>>
    /\ node_call[1].node.type = "agentNode"
    /\ node_call[1].node.model_provider = "" /\ node_call[1].node.model_name = ""
    /\ node_call[1].node.expected_calls_per_run = 2
    /\ \E j \in 1..Len(node_call[1].connected_tool_nodes) :
           node_call[1].connected_tool_nodes[j].node.tool_id = "search"
    /\ node_call[1].res # <<>>
    /\ node_call[1].res[1].tokens > 0
    /\ node_call[1].res[1].cost = 0

\* the orders of n entries: the one-to-one maps from ranks to entries
Rankings ==
    [n \in 0..MaxBreakdown |->
        {p \in [1..n -> 1..n] : \A a, b \in 1..n : a # b => p[a] # p[b]}]

\* C18: with the n entries ranked by max(cost_share, latency_share),
\* descending, the entries in the top 20% of the ranks are high, those in the
\* ranks up to 50% medium and the others low, an entry without cost and
\* latency being low whatever its rank; every entry has one of the three
\* severities.
C18_BottleneckSeverity ==
    \A k \in 1..Len(shares_call) :
        shares_call[k].computed =>
            LET b == shares_call[k].breakdown
                n == Len(shares_call[k].breakdown)
                impact(i) == Max2(b[i].cost_share, b[i].latency_share)
            IN  /\ \A i \in 1..n : b[i].bottleneck_severity \in {"high", "medium", "low"}
                /\ \E p \in Rankings[n] :
                       /\ \A r \in 1..(n - 1) : impact(p[r]) >= impact(p[r + 1])
                       /\ \A r \in 1..n :
                              b[p[r]].bottleneck_severity =
                                  IF b[p[r]].cost = 0 /\ b[p[r]].latency = 0 THEN "low"
                                  ELSE IF 5 * r <= n THEN "high"
                                  ELSE IF 2 * r <= n THEN "medium"
                                  ELSE "low"

\* C18's case: five entries, among them a high one, a medium one, a low one
\* with a cost and one without cost and latency.
C18_Witness ==
    /\ shares_call # <<>>
    /\ shares_call[1].computed
    /\ Len(shares_call[1].breakdown) = 5
    /\ \E h, m, l, z \in 1..5 :
           LET b == shares_call[1].breakdown
           IN  /\ b[h].bottleneck_severity = "high"
               /\ b[m].bottleneck_severity = "medium"
               /\ b[l].bottleneck_severity = "low" /\ b[l].cost > 0
               /\ b[z].cost = 0 /\ b[z].latency = 0

\* C19: the health score of every returned estimation is the sum of the four
\* factor scores in details (cost_concentration, loop_risk, premium_models,
\* latency_balance); each factor is within 0..25 and the score within 0..100;
\* the grade is A exactly when score >= 85, B when 70 <= score < 85, C when
\* 55 <= score < 70, D when 40 <= score < 55 and F when score < 40.
C19_HealthScore ==
    \A i \in 1..Len(response) :
        Returned(i) =>
            LET health == response[i].res.health
                factors == {health.details.cost_concentration.score,
                            health.details.loop_risk.score,
                            health.details.premium_models.score,
                            health.details.latency_balance.score}
            IN  /\ health.score = health.details.cost_concentration.score
                                      + health.details.loop_risk.score
                                      + health.details.premium_models.score
                                      + health.details.latency_balance.score
                /\ factors \subseteq 0..25
                /\ health.score \in 0..100
                /\ health.grade \in {"A", "B", "C", "D", "F"}
                /\ health.grade = "A" <=> health.score >= 85
                /\ health.grade = "B" <=> health.score >= 70 /\ health.score < 85
                /\ health.grade = "C" <=> health.score >= 55 /\ health.score < 70
                /\ health.grade = "D" <=> health.score >= 40 /\ health.score < 55
                /\ health.grade = "F" <=> health.score < 40

\* C19's case: a score that sits exactly on the first point of grade B, with
\* a factor below its full 25.
C19_Witness ==
    /\ \E i \in 1..Len(response) :
           /\ Returned(i)
           /\ response[i].res.health.score = 70
           /\ response[i].res.health.grade = "B"
           /\ response[i].res.health.details.cost_concentration.score < 25

\* the agent nodes of the request
AgentNodeIds == {id \in NodeIdSet : nodes[id].type = "agentNode"}

\* C20: the premium ratio of the health score counts every agent node whose
\* catalog input price is at or above the expensive-model threshold (it is
\* that count over the number of agent nodes, to 3 places, and 0 without
\* agent nodes); an agent named as the expensive model of a cycle's risk is
\* counted as premium.
C20_PremiumRatio ==
    \A i \in 1..Len(response) :
        Returned(i) =>
            LET premium_ratio ==
                    response[i].res.health.details.premium_models.premium_ratio
                expensive == Cardinality({id \in AgentNodeIds : UsesExpensiveModel(id)})
                agents == Cardinality(AgentNodeIds)
                error == 1000 * expensive - premium_ratio * agents
            IN  /\ agents = 0 => premium_ratio = 0
                /\ 2 * error <= agents /\ -2 * error <= agents
                /\ \A c \in 1..Len(response[i].res.detected_cycles) :
                       \A k \in 1..Len(response[i].res.detected_cycles[c].risk_reason) :
                           response[i].res.detected_cycles[c].risk_reason[k].model # <<>>
                               => premium_ratio > 0

\* C21: no estimate_workflow call writes to the pricing catalog or the tool
\* catalog, and under any interleaving of concurrent calls every call returns
\* the result it returns when it runs alone on the loaded catalogs.
C21_ConcurrentCalls ==
    /\ pricing_lookup = LoadedPricing
    /\ tool_lookup = LoadedTools
    /\ \A k \in 1..Len(response) :
           response[k].res =
               estimate_workflow(response[k].nodes, response[k].edges, response[k].args,
                                 LoadedPricing, LoadedTools, response[k].half_up)

\* C21's case: a call has returned an estimation with a cost and a cycle
\* after reading the catalogs in between the reads of another call, and
\* another call that looks up the same model is still in its per-node loop.
C21_Witness ==
    \E k \in 1..Len(response) :
        /\ response[k].overlapped
        /\ ~response[k].res.raised
        /\ response[k].res.total_cost > 0
        /\ response[k].res.detected_cycles # <<>>
        /\ \E c \in 1..Len(in_flight) :
               /\ in_flight[c].breakdown # <<>>
               /\ Len(in_flight[c].breakdown) < Len(in_flight[c].nodes)
               /\ \E i \in 1..Len(in_flight[c].nodes) :
                      \E j \in 1..Len(response[k].nodes) :
                          PricingKeysOf(in_flight[c].nodes[i]) # {}
                          /\ PricingKeysOf(in_flight[c].nodes[i])
                                 = PricingKeysOf(response[k].nodes[j])

\* C22: the result returned for a request equals the engine's result for the
\* request's nodes, edges, recursion limit, runs-per-day figure and
\* loop-intensity multiplier: a request with a runs-per-day figure gets a
\* scaling projection, and a request with a loop intensity gets the expected
\* iterations of its cycles scaled by it.
C22_RequestHonoured ==
    \A i \in 1..Len(response) :
        /\ response[i].res =
               estimate_workflow(nodes, edges, EngineArgs(response[i].request),
                                 pricing_lookup, tool_lookup, float_half_up)
        /\ Returned(i) /\ response[i].request.runs_per_day # 0
               => response[i].res.scaling_projection # <<>>

\* C23: whenever the result's graph_type is CYCLIC, detected_cycles is not
\* empty and token_range, cost_range and latency_range are present; whenever
\* it is DAG, detected_cycles is empty and the three ranges are absent; graphs
\* whose only cycles are self-loops included.
C23_CyclicHasCycles ==
    \A i \in 1..Len(response) :
        Returned(i) =>
            LET res == response[i].res
            IN  /\ res.graph_type \in {"CYCLIC", "DAG"}
                /\ res.graph_type = "CYCLIC" =>
                       /\ res.detected_cycles # <<>>
                       /\ res.token_range # <<>>
                       /\ res.cost_range # <<>>
                       /\ res.latency_range # <<>>
                /\ res.graph_type = "DAG" =>
                       /\ res.detected_cycles = <<>>
                       /\ res.token_range = <<>>
                       /\ res.cost_range = <<>>
                       /\ res.latency_range = <<>>

\* C24: total_input_tokens + total_output_tokens = total_tokens in every
\* result of estimate_workflow, on acyclic graphs and on cyclic graphs for
\* every max_iterations value, odd or even.
C24_InputPlusOutput ==
    \A i \in 1..Len(response) :
        Returned(i) =>
            response[i].res.total_input_tokens + response[i].res.total_output_tokens
                = response[i].res.total_tokens

\* C25: for every cycle group, every recorded back-edge is an edge of the
\* graph with both endpoints in the group, the group has at least one
\* back-edge, and the subgraph induced by the group without the recorded
\* back-edges is acyclic.
C25_BackEdges ==
    Asked("get_cycle_groups") =>
        \A g \in 1..Len(ret[1].val) :
            LET group == Range(ret[1].val[g].node_ids)
                back == Range(ret[1].val[g].back_edges)
                rest == (Range(edges) \cap (group \X group)) \ back
            IN  /\ back \subseteq Range(edges) \cap (group \X group)
                /\ back # {}
                /\ ~\E a \in group : <<a, a>> \in PathsUpTo(rest, MaxNodes)

\* C25's case: a cycle group with two different back-edges, one of them a
\* self-loop.
C25_Witness ==
    /\ Asked("get_cycle_groups")
    /\ \E g \in 1..Len(ret[1].val) :
           \E a, b \in Range(ret[1].val[g].back_edges) : a # b /\ a[1] = a[2]

\* the edges an adjacency table holds
AdjacencyEdges(adj) ==
    UNION {{<<u, adj[u][i]>> : i \in 1..Len(adj[u])} : u \in DOMAIN adj}

\* C26: on one analyzer, after any sequence of queries the in-degree table and
\* the set of adjacency edges are those the constructor built, and the last
\* query returned what it returns as the first query on a new instance.
C26_QueriesLeaveGraph ==
    /\ analyzer.in_degree = InDegreeOf(NodeIdsOf(nodes), edges)
    /\ AdjacencyEdges(analyzer.adj) = Range(edges)
    /\ ret # <<>> => ret[1].val = FirstAnswer(ret[1].op, ret[1].arg)

\* a longest path of two or more nodes, answered after earlier queries filled
\* both caches and added keys to the adjacency table
C26_Witness ==
    /\ Asked("weighted_critical_path")
    /\ Len(ret[1].val.path) >= 2
    /\ ret[1].arg # <<>>
    /\ analyzer._cycle_groups # <<>>
    /\ analyzer.adj_keys # AdjKeys(edges)

\* C27: on a graph with at least one node whose edges all join node ids,
\* is_cyclic() is true exactly when the graph has a directed cycle (a self-loop
\* is one), and that is exactly when topological_order() returns the empty
\* list.
C27_CyclicIffNoOrder ==
    (WellFormed /\ nodes # <<>>) =>
        /\ Asked("is_cyclic") => (ret[1].val = "True" <=> HasDirectedCycle)
        /\ Asked("topological_order") => (ret[1].val = <<>> <=> HasDirectedCycle)

\* three nodes whose only cycle is a self-loop on the last one, behind an edge
\* from the first: topological_order() returns the empty list
C27_Witness ==
    /\ Asked("topological_order")
    /\ ret[1].val = <<>>
    /\ Len(nodes) = 3
    /\ Range(edges) = {<<1, 2>>, <<3, 3>>}

\* C28: for every cycle of a result, cost_contribution is cost_per_lap times
\* expected_iterations over the result's total_cost (to 4 places) and
\* latency_contribution is latency_per_lap times expected_iterations over
\* total_latency, each 0 when the total is 0; each contribution lies between
\* 0 and 1, and the contributions of all cycles of a result sum to at most 1.
C28_Contributions ==
    \A i \in 1..Len(response) :
        Returned(i) =>
            LET res    == response[i].res
                cycles == res.detected_cycles
            IN  /\ \A k \in 1..Len(cycles) :
                       /\ cycles[k].cost_contribution =
                              ShareOf(cycles[k].cost_per_lap * cycles[k].expected_iterations,
                                      res.total_cost)
                       /\ cycles[k].latency_contribution =
                              ShareOf(cycles[k].latency_per_lap * cycles[k].expected_iterations,
                                      res.total_latency)
                       /\ cycles[k].cost_contribution \in 0..10000
                       /\ cycles[k].latency_contribution \in 0..10000
                /\ SumSeq([k \in 1..Len(cycles) |-> cycles[k].cost_contribution]) <= 10000
                /\ SumSeq([k \in 1..Len(cycles) |-> cycles[k].latency_contribution]) <= 10000

\* the plain sum of one single-lap value over the breakdown of response i
PlainSum(i, f(_)) ==
    SumSeq([k \in 1..Len(response[i].res.breakdown) |-> f(response[i].res.breakdown[k])])

\* C29, as stated: the plain sum of the single-lap breakdown values (tokens,
\* cost, latency) equals the headline total when the result has no cycle
\* group, and the min of the corresponding range when it has one.
C29_PlainSumsExact ==
    \A i \in 1..Len(response) :
        Returned(i) =>
            LET res == response[i].res IN
            IF res.detected_cycles = <<>>
            THEN /\ res.total_tokens = PlainSum(i, LAMBDA b : b.tokens)
                 /\ res.total_cost = PlainSum(i, LAMBDA b : b.cost)
                 /\ res.total_latency = PlainSum(i, LAMBDA b : b.latency)
            ELSE /\ res.token_range[1].min = PlainSum(i, LAMBDA b : b.tokens)
                 /\ res.cost_range[1].min = PlainSum(i, LAMBDA b : b.cost)
                 /\ res.latency_range[1].min = PlainSum(i, LAMBDA b : b.latency)

\* C29, amended: the same, except that with a cycle group cost_range.min is
\* the plain sum of the costs rounded to 6 decimal places: a multiple of 1e-6
\* dollars at most half of 1e-6 away from it (costs are in 1e-8 dollars here).
C29_PlainSumsRounded ==
    \A i \in 1..Len(response) :
        Returned(i) =>
            LET res == response[i].res IN
            IF res.detected_cycles = <<>>
            THEN /\ res.total_tokens = PlainSum(i, LAMBDA b : b.tokens)
                 /\ res.total_cost = PlainSum(i, LAMBDA b : b.cost)
                 /\ res.total_latency = PlainSum(i, LAMBDA b : b.latency)
            ELSE /\ res.token_range[1].min = PlainSum(i, LAMBDA b : b.tokens)
                 /\ res.cost_range[1].min % 100 = 0
                 /\ 2 * res.cost_range[1].min <= 2 * PlainSum(i, LAMBDA b : b.cost) + 100
                 /\ 2 * res.cost_range[1].min >= 2 * PlainSum(i, LAMBDA b : b.cost) - 100
                 /\ res.latency_range[1].min = PlainSum(i, LAMBDA b : b.latency)

\* C29's case: a result with a cycle group of more than one lap, a priced
\* node in the group and a priced node outside it, where the plain sum of the
\* costs has a seventh or eighth decimal.
C29_Witness ==
    \E i \in 1..Len(response) :
        /\ Returned(i)
        /\ \E c \in 1..Len(response[i].res.detected_cycles) :
               response[i].res.detected_cycles[c].max_iterations > 1
        /\ \E k, m \in 1..Len(response[i].res.breakdown) :
               /\ ~response[i].res.breakdown[k].in_cycle
               /\ response[i].res.breakdown[k].cost > 0
               /\ response[i].res.breakdown[m].in_cycle
               /\ response[i].res.breakdown[m].cost > 0
        /\ PlainSum(i, LAMBDA b : b.cost) % 100 # 0
        /\ response[i].res.cost_range[1].min # PlainSum(i, LAMBDA b : b.cost)
        /\ response[i].res.cost_range[1].min < response[i].res.cost_range[1].avg

\* no depth-first search has entered a node twice, Kahn's loop has dequeued no
\* node twice, the backtracking has put no node on its path twice, and an
\* estimate_workflow call that has returned took one step per node, one per
\* cycle and one for the return, whatever its iteration counts, its loop
\* over the cycles having added up the max of the token range
OnceEach ==
    running # <<>> =>
        LET fr == running[1] IN
        /\ fr.op \in {"is_cyclic", "sccs", "_find_back_edges_in_subgraph"} =>
               \A n \in AllIds : fr.visits[n] <= 1
        /\ fr.op = "topological_order" => \A n \in AllIds : fr.dequeues[n] <= 1
        /\ fr.op = "weighted_critical_path" =>
               \A i, j \in 1..Len(fr.path) : i # j => fr.path[i] # fr.path[j]
        /\ (fr.op = "estimate_workflow" /\ fr.done /\ ~fr.raised) =>
               LET res == estimate_workflow(nodes, edges, fr.args, pricing_lookup,
                                            tool_lookup, float_half_up)
               IN  /\ fr.steps = Len(nodes) + Len(res.detected_cycles) + 1
                   /\ Len(fr.breakdown) = Len(res.breakdown)
                   /\ res.detected_cycles # <<>> =>
                          res.token_range[1].max =
                              fr.tokens_max
                              + SumOver(fr.breakdown, LAMBDA b : ~b.in_cycle,
                                        LAMBDA b : b.tokens)

Started == running # <<>>

Finished == running # <<>> /\ running[1].done

\* C30: on every graph, with cycles, self-loops, repeated edges and
\* disconnected parts, every operation that has started finishes; on the way
\* each depth-first search enters a node at most once, Kahn's loop dequeues a
\* node at most once, the backtracking over the parent links ends at a node
\* without parent, and the steps of estimate_workflow do not depend on the
\* iteration counts.
C30_Terminates == []OnceEach /\ (Started ~> Finished)

\* C30's case: the components of a graph of three nodes in two parts, one a
\* cycle and one a node with a self-loop, have been computed step by step
C30_Witness ==
    /\ Finished
    /\ running[1].op = "sccs"
    /\ Len(nodes) = 3
    /\ \E k \in 1..Len(edges) : edges[k][1] = edges[k][2]
    /\ \E c \in 1..Len(running[1].val) : Len(running[1].val[c]) >= 2
    /\ running[1].val = compute_sccs(NodeIdsOf(nodes), Adj)
====
